---- MODULE Spec2Model ----
(***************************************************************************)
(* Pier core (pier-core): SSH session, exec, boundary calls, session mutex. *)
(*                                                                         *)
(* SpecConnect  - SshSession::connect / disconnect with the host-key       *)
(*                handler SshHandler::check_server_key and the process-    *)
(*                wide known-hosts store.                                  *)
(* SpecExec     - pier_ssh_exec around SshSession::exec_command: the       *)
(*                message loop, its two deadlines and the boundary timeout.*)
(* SpecBoundary - the blocking SSH calls of the C boundary (ffi.rs)       *)
(*                and the timeouts armed around what they wait for, with a *)
(*                server that may stop responding; fair.                   *)
(* SpecMutex    - the tasks that share one session's transport mutex:      *)
(*                exec_command calls and a forwarded connection.           *)
(* SpecForward  - the port forwarder: start/stop_port_forward,             *)
(*                stop_all_forwards, the accept loops and per-connection   *)
(*                tasks with their cancel signals; fair.                   *)
(* SpecDisconnect - the same forwarder when pier_ssh_disconnect drops the    *)
(*                session under its running tasks; fair.                   *)
(* SpecEmu      - VtEmulator on small grids: any sequence of the Perform   *)
(*                callbacks (print, execute, csi_dispatch) and of resize.  *)
(* SpecScenario - VtEmulator::process on a fresh 80x24 emulator fed the    *)
(*                byte strings of the documented VT scenarios.             *)
(* SpecPty      - PtyProcess: spawn, write, the child and drop.            *)
(* SpecGraph    - compute_graph_layout, row by row.                        *)
(* SpecDetect   - detect_all and its four service detectors.               *)
(* SpecFfi      - the argument checks of the C boundary calls.             *)
(* SpecParse    - parse_version on short tool outputs.                     *)
(* SpecCrypto   - encrypt / decrypt (AES-256-GCM framing).                 *)
(* SpecRead     - pier_terminal_read over PtyProcess::read.                *)
(***************************************************************************)
EXTENDS Integers, Sequences, FiniteSets, TLC

\* ------------------------------------------------------------------ bounds
NumSessions == 1
NumHostPorts == 1

Sessions == 1..NumSessions
HostPorts == 1..NumHostPorts
\* server public keys: the one a host first shows and a different one
Keys == {"K1", "K2"}
NoKey == "NoKey"

AuthMethods == {"Password", "KeyFile", "Agent"}

\* clock ticks in one per-message wait of exec_command (time resolution)
TicksPerMsgWait == 2
\* bytes of command output kept in the model
MaxData == 2
\* exec_command calls running at once on one session (detect_all joins its probes)
NumExecTasks == 3
\* local ports a host may forward
NumPorts == 2
\* per-connection task slots (a finished task's slot is used again)
MaxConns == 1
\* largest emulator grid of SpecEmu
MaxCols == 2
MaxRows == 2
\* longest byte string handed to one terminal_write
MaxWrite == 2
\* commits in an enumerated graph, and parents of one commit
MaxCommits == 3
MaxParents == 2

\* ------------------------------------------------------- program constants
MSG_TIMEOUT_SECS == 10
EXEC_DEADLINE_SECS == 60
EXEC_BOUNDARY_SECS == 60
CONNECT_TIMEOUT_SECS == 10
DISCONNECT_TIMEOUT_SECS == 5
DETECT_BOUNDARY_SECS == 30
FORWARD_BOUNDARY_SECS == 10

VARIABLES
    known_hosts,   \* the known-hosts store: (host, port) -> recorded key, or NoKey
    config,        \* SshSession.config: (host, port) and auth of each session
    handle,        \* SshSession.handle: Option<transport>
    pc,            \* where each session's connect()/disconnect() call stands
    result,        \* what each session's latest connect()/disconnect() returned, and how
    hk,            \* history: the host-key check of the connect() in progress
    connected,     \* history: latest successful connect() not followed by a disconnect()
    tofu           \* history: per (host, port), first key accepted as unknown / persisted

connVars == <<known_hosts, config, handle, pc, result, hk, connected, tofu>>

VARIABLES
    x_pc,          \* where the pier_ssh_exec call stands
    now,           \* ticks since pier_ssh_exec armed its boundary timeout
    deadline,      \* exec_command: the overall deadline (a tick)
    msg_due,       \* exec_command: when the current per-message timeout elapses
    stdout,        \* exec_command: the output buffer
    exit_code,     \* exec_command: i32, -1 until an ExitStatus is stored
    got_eof,       \* exec_command: Eof seen
    rx,            \* history: what the channel delivered: data, statuses, last message
    why,           \* history: what ended the call
    json           \* what pier_ssh_exec returned

execVars == <<x_pc, now, deadline, msg_due, stdout, exit_code, got_eof, rx, why, json>>

VARIABLES
    b_op,          \* the boundary call the host thread is blocked in, or "none"
    b_phase,       \* what that call is waiting for
    b_auth,        \* ssh_connect: the SshAuth built from auth_type
    b_elapsed,     \* ticks since the timeout around the current wait was armed
    b_server,      \* whether the server still answers
    b_handle,      \* the PierSshHandle the host holds: "null" or "live"
    b_ret          \* how the latest call returned

boundVars == <<b_op, b_phase, b_auth, b_elapsed, b_server, b_handle, b_ret>>

VARIABLES
    m_owner,       \* the task holding the transport mutex, or NoTask
    m_pc           \* where each task stands

mutexVars == <<m_owner, m_pc>>

VARIABLES
    forwards,      \* SshSession.forwards: whether local port p is a key (holding cancel_tx)
    signals,       \* the watch channel made by the latest start of port p: value, sender dropped
    loops,         \* the accept loop spawned by the latest start of port p
    conns,         \* per-connection tasks: port, where they stand, what their receiver shows
    f_ret,         \* what the latest forwarding call returned
    started        \* history: ports whose latest successful start no stop has followed

fwdVars == <<forwards, signals, loops, conns, f_ret, started>>

VARIABLES
    emu,           \* VtEmulator: cols, rows, cursor_x, cursor_y, cells; panicked
    e_last,        \* history: the latest call on the emulator and its parameters
    parser,        \* the escape-sequence parser's state between bytes
    feed,          \* the bytes process() has still to consume
    scenario       \* history: which byte string was fed

emuVars == <<emu, e_last, parser, feed, scenario>>

VARIABLES
    pty            \* PtyProcess and its child: where spawn/write/drop stand, what the child does

VARIABLES
    gin,           \* the arguments of compute_graph_layout: commits, main_chain, params
    gst            \* its locals as the row sweep goes on, and the rows it returns

VARIABLES
    det            \* detect_all: where each of the four detectors stands, what was returned

VARIABLES
    ffi,           \* the latest call across the C boundary: arguments, what it did, its result
    pv,            \* parse_version: the output it was given and what it returned
    cr,            \* crypto: key, plaintext, nonce, ciphertext and what decrypt returned
    rd             \* terminal_read: the master's byte stream and what reached the caller

callVars == <<ffi, pv, cr, rd>>

libVars == <<pty, gin, gst, det, callVars>>

vars == <<connVars, execVars, boundVars, mutexVars, fwdVars, emuVars, libVars>>

\* what the actions of one part leave alone
notConnVars == <<execVars, boundVars, mutexVars, fwdVars, emuVars, libVars>>
notExecVars == <<connVars, boundVars, mutexVars, fwdVars, emuVars, libVars>>
notBoundVars == <<connVars, execVars, mutexVars, fwdVars, emuVars, libVars>>
notMutexVars == <<connVars, execVars, boundVars, fwdVars, emuVars, libVars>>
notFwdVars == <<connVars, execVars, boundVars, mutexVars, emuVars, libVars>>
notEmuVars == <<connVars, execVars, boundVars, mutexVars, fwdVars, libVars>>
sshAndEmuVars == <<connVars, execVars, boundVars, mutexVars, fwdVars, emuVars>>
notPtyVars == <<sshAndEmuVars, gin, gst, det, callVars>>
notGraphVars == <<sshAndEmuVars, pty, det, callVars>>
notDetectVars == <<sshAndEmuVars, pty, gin, gst, callVars>>
notCallVars == <<sshAndEmuVars, pty, gin, gst, det>>

\* ------------------------------------------------ Option<transport>
None == "None"
Some == "Some"

is_connected(s) == handle[s] # None

\* ------------------------------------------------ known-hosts store
\* The three outcomes of the store query, as the handler's match arms read them.
KnownAndMatches(store, hp, key) == store[hp] = key
KnownAndMismatches(store, hp, key) == store[hp] # NoKey /\ store[hp] # key
Unknown(store, hp) == store[hp] = NoKey

check_known_hosts(store, hp, key) ==
    IF store[hp] = NoKey THEN "Err"
    ELSE IF store[hp] = key THEN "OkTrue" ELSE "OkFalse"

learn_known_hosts(store, hp, key, io_ok) ==
    IF io_ok THEN [ok |-> TRUE, store |-> [store EXCEPT ![hp] = key]]
    ELSE [ok |-> FALSE, store |-> store]

\* mutant: a mismatch is logged and the key trusted anyway
check_server_key_trusts_mismatch(store, hp, key, io_ok) ==
    LET q == check_known_hosts(store, hp, key)
        l == learn_known_hosts(store, hp, key, io_ok)
    IN  IF q = "Err"
        THEN [ret |-> "OkTrue", store |-> l.store]
        ELSE [ret |-> "OkTrue", store |-> store]

\* mutant: a failure to persist the key fails the handshake
check_server_key_fails_on_learn(store, hp, key, io_ok) ==
    LET q == check_known_hosts(store, hp, key)
        l == learn_known_hosts(store, hp, key, io_ok)
    IN  CASE q = "OkTrue" -> [ret |-> "OkTrue", store |-> store]
          [] q = "OkFalse" -> [ret |-> "Err", store |-> store]
          [] OTHER -> [ret |-> IF l.ok THEN "OkTrue" ELSE "Err",
                       store |-> l.store]

\* mutant: a known host with a changed key has its entry overwritten
check_server_key_relearns(store, hp, key, io_ok) ==
    LET q == check_known_hosts(store, hp, key)
        l == learn_known_hosts(store, hp, key, io_ok)
    IN  CASE q = "OkTrue" -> [ret |-> "OkTrue", store |-> store]
          [] q = "OkFalse" -> [ret |-> "OkTrue", store |-> l.store]
          [] OTHER -> [ret |-> "OkTrue", store |-> l.store]

\* SshHandler::check_server_key: ret is Ok(true) or Err; store is the store afterwards.
check_server_key(store, hp, key, io_ok) ==
    LET q == check_known_hosts(store, hp, key)
        l == learn_known_hosts(store, hp, key, io_ok)
    IN  CASE q = "OkTrue" -> [ret |-> "OkTrue", store |-> store]
          [] q = "OkFalse" -> [ret |-> "Err", store |-> store]
          [] OTHER -> [ret |-> "OkTrue", store |-> l.store]

\* ------------------------------------------------ SshSession::connect
NoCheck == [key |-> NoKey, outcome |-> "none", io_ok |-> FALSE]

\* what a call returned: connect() Ok(()) or Err; disconnect() always Ok(())
NoResult == [op |-> "none", ret |-> "none", how |-> "none", key |-> NoKey]
ConnectOk == [op |-> "connect", ret |-> "Ok", how |-> "none", key |-> NoKey]
ConnectErr(how, key) == [op |-> "connect", ret |-> "Err", how |-> how, key |-> key]
DisconnectOk(how) == [op |-> "disconnect", ret |-> "Ok", how |-> how, key |-> NoKey]

\* session.rs 118-125: the transport is stored only after AuthResult::Success
auth_result_handle(h, auth_result) ==
    IF auth_result = "Success" THEN Some ELSE h

\* mutant: the handle is put back when the disconnect handshake times out
disconnect_take_keeps_on_timeout(h, outcome) ==
    IF outcome = "Timeout" THEN h ELSE None

\* session.rs 154: self.handle.take() before the handshake, whatever its outcome
disconnect_take(h, outcome) == None

\* connect() is called: the handler is built and client::connect starts under the 10 s timeout
ConnectStart(s) ==
    /\ pc[s] = "idle"
    /\ pc' = [pc EXCEPT ![s] = "handshake"]
    /\ result' = [result EXCEPT ![s] = NoResult]
    /\ UNCHANGED <<known_hosts, config, handle, hk, connected, tofu>>
    /\ UNCHANGED notConnVars

\* key exchange: the server presents key k and russh calls check_server_key; a refusal
\* makes client::connect, and with it connect(), return the error
ServerKey(s, k, io_ok) ==
    /\ pc[s] = "handshake"
    /\ LET hp == config[s].hostport
           r == check_server_key(known_hosts, hp, k, io_ok)
           outcome == IF KnownAndMatches(known_hosts, hp, k) THEN "matches"
                      ELSE IF Unknown(known_hosts, hp) THEN "unknown"
                      ELSE "mismatches"
       IN  /\ known_hosts' = r.store
           /\ tofu' = IF outcome = "unknown" /\ r.ret = "OkTrue"
                      THEN [tofu EXCEPT ![hp] =
                              [first |-> IF @.first = NoKey THEN k ELSE @.first,
                               persisted |-> IF @.persisted = NoKey /\ r.store[hp] = k
                                             THEN k ELSE @.persisted]]
                      ELSE tofu
           /\ IF r.ret = "OkTrue"
              THEN /\ pc' = [pc EXCEPT ![s] = "accepted"]
                   /\ hk' = [hk EXCEPT ![s] =
                               [key |-> k, outcome |-> outcome,
                                io_ok |-> outcome = "unknown" /\ io_ok]]
                   /\ UNCHANGED result
              ELSE /\ pc' = [pc EXCEPT ![s] = "idle"]
                   /\ result' = [result EXCEPT ![s] = ConnectErr("HostKey", k)]
                   /\ UNCHANGED hk
    /\ UNCHANGED <<config, handle, connected>>
    /\ UNCHANGED notConnVars

\* client::connect returns Ok(session): the key was accepted and key exchange finished
ConnectEstablished(s) ==
    /\ pc[s] = "accepted"
    /\ pc' = [pc EXCEPT ![s] = "auth"]
    /\ UNCHANGED <<known_hosts, config, handle, result, hk, connected, tofu>>
    /\ UNCHANGED notConnVars

\* the 10 s timeout around client::connect elapses first
ConnectTimeout(s) ==
    /\ pc[s] \in {"handshake", "accepted"}
    /\ pc' = [pc EXCEPT ![s] = "idle"]
    /\ result' = [result EXCEPT ![s] = ConnectErr("Timeout", NoKey)]
    /\ hk' = [hk EXCEPT ![s] = NoCheck]
    /\ UNCHANGED <<known_hosts, config, handle, connected, tofu>>
    /\ UNCHANGED notConnVars

\* client::connect returns an I/O or protocol error (result?)
ConnectError(s) ==
    /\ pc[s] \in {"handshake", "accepted"}
    /\ pc' = [pc EXCEPT ![s] = "idle"]
    /\ result' = [result EXCEPT ![s] = ConnectErr("Io", NoKey)]
    /\ hk' = [hk EXCEPT ![s] = NoCheck]
    /\ UNCHANGED <<known_hosts, config, handle, connected, tofu>>
    /\ UNCHANGED notConnVars

\* SshAuth::Agent: not implemented, returns Err before any request is sent
AuthAgent(s) ==
    /\ pc[s] = "auth"
    /\ config[s].auth = "Agent"
    /\ pc' = [pc EXCEPT ![s] = "idle"]
    /\ result' = [result EXCEPT ![s] = ConnectErr("Agent", NoKey)]
    /\ hk' = [hk EXCEPT ![s] = NoCheck]
    /\ UNCHANGED <<known_hosts, config, handle, connected, tofu>>
    /\ UNCHANGED notConnVars

\* SshAuth::KeyFile: load_secret_key fails (?)
AuthKeyLoadError(s) ==
    /\ pc[s] = "auth"
    /\ config[s].auth = "KeyFile"
    /\ pc' = [pc EXCEPT ![s] = "idle"]
    /\ result' = [result EXCEPT ![s] = ConnectErr("Auth", NoKey)]
    /\ hk' = [hk EXCEPT ![s] = NoCheck]
    /\ UNCHANGED <<known_hosts, config, handle, connected, tofu>>
    /\ UNCHANGED notConnVars

\* the server answers the authentication request: Success, Failure, or the request errs (?)
AuthReply(s, auth_result) ==
    /\ pc[s] = "auth"
    /\ config[s].auth \in {"Password", "KeyFile"}
    /\ handle' = [handle EXCEPT ![s] = auth_result_handle(@, auth_result)]
    /\ pc' = [pc EXCEPT ![s] = "idle"]
    /\ result' = [result EXCEPT ![s] = IF auth_result = "Success" THEN ConnectOk
                                        ELSE ConnectErr("Auth", NoKey)]
    /\ hk' = [hk EXCEPT ![s] = NoCheck]
    /\ connected' = [connected EXCEPT ![s] = IF auth_result = "Success" THEN TRUE ELSE @]
    /\ UNCHANGED <<known_hosts, config, tofu>>
    /\ UNCHANGED notConnVars

\* ------------------------------------------------ SshSession::disconnect
\* disconnect() on a session without a transport: nothing to do, Ok(())
DisconnectNoHandle(s) ==
    /\ pc[s] = "idle"
    /\ handle[s] = None
    /\ result' = [result EXCEPT ![s] = DisconnectOk("NoHandle")]
    /\ connected' = [connected EXCEPT ![s] = FALSE]
    /\ UNCHANGED <<known_hosts, config, handle, pc, hk, tofu>>
    /\ UNCHANGED notConnVars

\* disconnect() with a transport: the handle is taken and the 5 s handshake runs;
\* it ends Ok, with an error, or by the timeout, and disconnect() returns Ok(())
DisconnectHandshake(s, outcome) ==
    /\ pc[s] = "idle"
    /\ handle[s] # None
    /\ handle' = [handle EXCEPT ![s] = disconnect_take(@, outcome)]
    /\ result' = [result EXCEPT ![s] = DisconnectOk(outcome)]
    /\ connected' = [connected EXCEPT ![s] = FALSE]
    /\ UNCHANGED <<known_hosts, config, pc, hk, tofu>>
    /\ UNCHANGED notConnVars

\* ------------------------------------------------ SshSession::exec_command
Bytes == {"x", " "}
\* exit statuses a server may send: uint32, written as two 16-bit halves
\* (0, 1 and 0xFFFFFFFF)
U32(hi, lo) == [hi |-> hi, lo |-> lo]
StatusValues == {U32(0, 0), U32(0, 1), U32(65535, 65535)}
NoStatus == U32(-1, -1)

\* `exit_status as i32`: the same 32 bits read as two's complement
ToI32(v) == IF v.hi >= 32768 THEN (v.hi - 65536) * 65536 + v.lo ELSE v.hi * 65536 + v.lo

Ticks(secs) == (secs * TicksPerMsgWait) \div MSG_TIMEOUT_SECS

Min(a, b) == IF a <= b THEN a ELSE b

RECURSIVE TrimStart(_)
TrimStart(q) == IF q # <<>> /\ Head(q) = " " THEN TrimStart(Tail(q)) ELSE q
RECURSIVE TrimEnd(_)
TrimEnd(q) ==
    IF q # <<>> /\ q[Len(q)] = " " THEN TrimEnd(SubSeq(q, 1, Len(q) - 1)) ELSE q
\* String::from_utf8_lossy(&stdout).trim().to_string()
Trim(q) == TrimEnd(TrimStart(q))

ChannelMsgs ==
    [kind : {"Data", "ExtendedData"}, data : Bytes, status : {NoStatus}]
      \cup [kind : {"ExitStatus"}, data : {""}, status : StatusValues]
      \cup [kind : {"Eof", "Close", "Other"}, data : {""}, status : {NoStatus}]

\* mutant: Eof ends the loop whether or not an exit status was stored
on_msg_eof_breaks(code, eof, out, msg) ==
    CASE msg.kind \in {"Data", "ExtendedData"} ->
            [exit_code |-> code, got_eof |-> eof, stdout |-> Append(out, msg.data),
             brk |-> FALSE]
      [] msg.kind = "ExitStatus" ->
            [exit_code |-> ToI32(msg.status), got_eof |-> eof, stdout |-> out, brk |-> eof]
      [] msg.kind = "Eof" ->
            [exit_code |-> code, got_eof |-> TRUE, stdout |-> out, brk |-> TRUE]
      [] msg.kind = "Close" ->
            [exit_code |-> code, got_eof |-> eof, stdout |-> out, brk |-> TRUE]
      [] OTHER -> [exit_code |-> code, got_eof |-> eof, stdout |-> out, brk |-> FALSE]

\* mutant: the exit status is noticed but not stored
on_msg_drops_status(code, eof, out, msg) ==
    CASE msg.kind \in {"Data", "ExtendedData"} ->
            [exit_code |-> code, got_eof |-> eof, stdout |-> Append(out, msg.data),
             brk |-> FALSE]
      [] msg.kind = "ExitStatus" ->
            [exit_code |-> code, got_eof |-> eof, stdout |-> out, brk |-> eof]
      [] msg.kind = "Eof" ->
            [exit_code |-> code, got_eof |-> TRUE, stdout |-> out, brk |-> code # -1]
      [] msg.kind = "Close" ->
            [exit_code |-> code, got_eof |-> eof, stdout |-> out, brk |-> TRUE]
      [] OTHER -> [exit_code |-> code, got_eof |-> eof, stdout |-> out, brk |-> FALSE]

\* the match on the message in exec_command's loop: the locals afterwards, and
\* whether the arm breaks out of the loop
on_msg(code, eof, out, msg) ==
    CASE msg.kind \in {"Data", "ExtendedData"} ->
            [exit_code |-> code, got_eof |-> eof, stdout |-> Append(out, msg.data),
             brk |-> FALSE]
      [] msg.kind = "ExitStatus" ->
            [exit_code |-> ToI32(msg.status), got_eof |-> eof, stdout |-> out, brk |-> eof]
      [] msg.kind = "Eof" ->
            [exit_code |-> code, got_eof |-> TRUE, stdout |-> out, brk |-> code # -1]
      [] msg.kind = "Close" ->
            [exit_code |-> code, got_eof |-> eof, stdout |-> out, brk |-> TRUE]
      [] OTHER -> [exit_code |-> code, got_eof |-> eof, stdout |-> out, brk |-> FALSE]

\* ------------------------------------------------ pier_ssh_exec
NoJson == [exit_code |-> 0, stdout |-> <<"none">>]
\* "Error: command timed out after 60s"
TimeoutText == <<"Error: command timed out after 60s">>
\* format!("Error: {}", e)
ErrorText == <<"Error: e">>

\* mutant: the boundary timeout is reported like a command that printed nothing
exec_json_timeout_empty(outcome, code, out) ==
    CASE outcome = "Ok" -> [exit_code |-> code, stdout |-> out]
      [] outcome = "Err" -> [exit_code |-> -1, stdout |-> ErrorText]
      [] OTHER -> [exit_code |-> -1, stdout |-> <<>>]

\* the match on block_on(timeout(60 s, exec_command)): Ok(Ok(..)), Ok(Err(e)), Err(_)
exec_json(outcome, code, out) ==
    CASE outcome = "Ok" -> [exit_code |-> code, stdout |-> out]
      [] outcome = "Err" -> [exit_code |-> -1, stdout |-> ErrorText]
      [] OTHER -> [exit_code |-> -1, stdout |-> TimeoutText]

NoRx == [data |-> <<>>, got_status |-> FALSE, status |-> NoStatus, eof |-> FALSE,
         last |-> "none", at |-> 0]

\* ------------------------------------------------ parts at rest
ExecTasks == 1..NumExecTasks
\* the task spawned for one accepted tunnel connection
FwdTask == 0
Tasks == ExecTasks \cup {FwdTask}
NoTask == -1

BoundaryIdle ==
    /\ b_op = "none"
    /\ b_phase = "idle"
    /\ b_auth = "none"
    /\ b_elapsed = 0
    /\ b_server = "responsive"
    /\ b_handle = "null"
    /\ b_ret = "none"

MutexIdle ==
    /\ m_owner = NoTask
    /\ m_pc = [t \in Tasks |-> "idle"]

\* ------------------------------------------------ VtEmulator
\* Cell::default()
DefaultCell == [ch |-> " ", fg |-> "Default", bg |-> "Default", bold |-> FALSE, underline |-> FALSE]

\* vec![v; n]
VecOf(v, n) == [i \in 1..n |-> v]

\* Vec::resize(n, v)
VecResize(vec, n, v) ==
    IF Len(vec) >= n THEN SubSeq(vec, 1, n) ELSE vec \o VecOf(v, n - Len(vec))

\* VtEmulator::new(cols, rows)
new(cols, rows) ==
    [cols |-> cols, rows |-> rows, cursor_x |-> 0, cursor_y |-> 0,
     cells |-> VecOf(VecOf(DefaultCell, cols), rows), panicked |-> FALSE]

NoCall == [op |-> "new", first |-> 0, second |-> 0]
\* Parser::new(): ground state, no parameters collected
NewParser == [state |-> "ground", params |-> <<>>, cur |-> 0]

EmuIdle ==
    /\ emu = new(1, 1)
    /\ e_last = NoCall
    /\ parser = NewParser
    /\ feed = <<>>
    /\ scenario = "none"

Ports == 1..NumPorts
ConnIds == 1..MaxConns
NoPort == 0
\* watch::channel(false); also what stands for "no channel made yet"
NewChannel == [value |-> FALSE, closed |-> FALSE]
NoConn == [port |-> NoPort, pc |-> "none", rx |-> NewChannel]

ForwardIdle ==
    /\ forwards = [p \in Ports |-> FALSE]
    /\ signals = [p \in Ports |-> NewChannel]
    /\ loops = [p \in Ports |-> "none"]
    /\ conns = [i \in ConnIds |-> NoConn]
    /\ f_ret = "none"
    /\ started = {}

\* no terminal was spawned, no layout asked for, no detection running
NoPty == [pc |-> "none", child |-> "none", sigterm |-> FALSE, sigkill |-> FALSE,
          reaps |-> 0, slept |-> FALSE, ret |-> "none",
          wrote |-> [len |-> 0, n |-> 0, errno |-> "none"], w_ret |-> 0]
NoInput == [commits |-> <<>>, main_chain |-> {}, show_long_edges |-> FALSE,
            lane_width |-> 20, row_height |-> 24, name |-> "none"]
NoLayout == [pc |-> "idle", row |-> 0, layout_index |-> <<>>, node_colors |-> <<>>,
             all_edges |-> <<>>, active |-> {}, node_columns |-> <<>>,
             edge_column_at_row |-> <<>>, result |-> <<>>]
NoDetect == [pc |-> "idle", svc |-> <<>>, services |-> <<>>]

NoFfi == [op |-> "none", args |-> <<>>, did |-> {}, with |-> <<>>, ret |-> "none"]
NoParse == [pc |-> "none", output |-> <<>>, ret |-> <<>>]
NoCrypto == [pc |-> "none", key |-> <<>>, plaintext |-> <<>>]
NoRead == [pc |-> "none"]

CallIdle ==
    /\ ffi = NoFfi
    /\ pv = NoParse
    /\ cr = NoCrypto
    /\ rd = NoRead

LibIdle ==
    /\ pty = NoPty
    /\ gin = NoInput
    /\ gst = NoLayout
    /\ det = NoDetect
    /\ CallIdle

ExecIdle ==
    /\ x_pc = "idle"
    /\ now = 0
    /\ deadline = 0
    /\ msg_due = 0
    /\ stdout = <<>>
    /\ exit_code = -1
    /\ got_eof = FALSE
    /\ rx = NoRx
    /\ why = "none"
    /\ json = NoJson

\* the call is on a session that some connect()/disconnect() history left
ExecInit ==
    /\ ExecIdle
    /\ LibIdle
    /\ known_hosts = [hp \in HostPorts |-> NoKey]
    /\ config = [s \in Sessions |-> [hostport |-> 1, auth |-> "Password"]]
    /\ handle \in [Sessions -> {None, Some}]
    /\ pc = [s \in Sessions |-> "idle"]
    /\ result = [s \in Sessions |-> NoResult]
    /\ hk = [s \in Sessions |-> NoCheck]
    /\ connected = [s \in Sessions |-> handle[s] # None]
    /\ tofu = [hp \in HostPorts |-> [first |-> NoKey, persisted |-> NoKey]]
    /\ BoundaryIdle
    /\ MutexIdle
    /\ ForwardIdle
    /\ EmuIdle

\* exec_command returns Ok((exit_code, output)) / Err(e), or the boundary timeout fires
ExecReturns(outcome, reason, code, out) ==
    /\ x_pc' = "returned"
    /\ why' = reason
    /\ json' = exec_json(outcome, code, Trim(out))

\* pier_ssh_exec(handle, command): exec_command finds no transport, or waits for the mutex
ExecCall(s) ==
    /\ x_pc = "idle"
    /\ IF handle[s] = None
       THEN ExecReturns("Err", "error", exit_code, stdout)
       ELSE x_pc' = "lock" /\ UNCHANGED <<why, json>>
    /\ UNCHANGED <<now, deadline, msg_due, stdout, exit_code, got_eof, rx>>
    /\ UNCHANGED notExecVars

\* handle.lock().await returns the guard
LockAcquired ==
    /\ x_pc = "lock"
    /\ x_pc' = "open"
    /\ UNCHANGED <<now, deadline, msg_due, stdout, exit_code, got_eof, rx, why, json>>
    /\ UNCHANGED notExecVars

\* channel_open_session().await? : the channel is confirmed, or the open fails
ChannelOpen(ok) ==
    /\ x_pc = "open"
    /\ IF ok THEN x_pc' = "exec" /\ UNCHANGED <<why, json>>
       ELSE ExecReturns("Err", "error", exit_code, stdout)
    /\ UNCHANGED <<now, deadline, msg_due, stdout, exit_code, got_eof, rx>>
    /\ UNCHANGED notExecVars

\* channel.exec(true, command).await? ; then the locals, the deadline and the first wait
ExecRequest(ok) ==
    /\ x_pc = "exec"
    /\ IF ok
       THEN /\ x_pc' = "loop"
            /\ deadline' = now + Ticks(EXEC_DEADLINE_SECS)
            /\ msg_due' = now + Min(Ticks(EXEC_DEADLINE_SECS), Ticks(MSG_TIMEOUT_SECS))
            /\ rx' = [rx EXCEPT !.at = now]
            /\ UNCHANGED <<why, json>>
       ELSE /\ ExecReturns("Err", "error", exit_code, stdout)
            /\ UNCHANGED <<deadline, msg_due, rx>>
    /\ UNCHANGED <<now, stdout, exit_code, got_eof>>
    /\ UNCHANGED notExecVars

\* channel.wait() yields a message: the match arm runs, then the loop either breaks,
\* or finds the overall deadline reached, or arms the next per-message timeout
ChannelMsg(msg) ==
    /\ x_pc = "loop"
    /\ msg.kind \in {"Data", "ExtendedData"} => Len(stdout) < MaxData
    /\ LET r == on_msg(exit_code, got_eof, stdout, msg)
           remaining == IF deadline > now THEN deadline - now ELSE 0
       IN  /\ stdout' = r.stdout
           /\ exit_code' = r.exit_code
           /\ got_eof' = r.got_eof
           /\ rx' = [data |-> IF msg.kind \in {"Data", "ExtendedData"}
                              THEN Append(rx.data, msg.data) ELSE rx.data,
                     got_status |-> rx.got_status \/ msg.kind = "ExitStatus",
                     status |-> IF msg.kind = "ExitStatus" THEN msg.status ELSE rx.status,
                     eof |-> rx.eof \/ msg.kind = "Eof",
                     last |-> msg.kind, at |-> now]
           /\ IF r.brk
              THEN /\ ExecReturns("Ok", "message", r.exit_code, r.stdout)
                   /\ UNCHANGED msg_due
              ELSE IF remaining = 0
              THEN /\ ExecReturns("Ok", "overall", r.exit_code, r.stdout)
                   /\ UNCHANGED msg_due
              ELSE /\ msg_due' = now + Min(remaining, Ticks(MSG_TIMEOUT_SECS))
                   /\ UNCHANGED <<x_pc, why, json>>
    /\ UNCHANGED <<now, deadline>>
    /\ UNCHANGED notExecVars

\* channel.wait() yields None: the channel ended
ChannelEnded ==
    /\ x_pc = "loop"
    /\ rx' = [rx EXCEPT !.last = "End"]
    /\ ExecReturns("Ok", "message", exit_code, stdout)
    /\ UNCHANGED <<now, deadline, msg_due, stdout, exit_code, got_eof>>
    /\ UNCHANGED notExecVars

\* the per-message timeout elapses with no message: Err(_) => break
MsgTimeout ==
    /\ x_pc = "loop"
    /\ now >= msg_due
    /\ ExecReturns("Ok", "msg_timeout", exit_code, stdout)
    /\ UNCHANGED <<now, deadline, msg_due, stdout, exit_code, got_eof, rx>>
    /\ UNCHANGED notExecVars

\* what exec_command is waiting for has not come and its own timer is not due
ExecPending ==
    /\ x_pc \in {"lock", "open", "exec", "loop"}
    /\ x_pc = "loop" => now < msg_due

\* pier_ssh_exec: the 60 s timeout around exec_command elapses (the inner future is
\* polled first, so it fires only while exec_command is pending)
BoundaryTimeout ==
    /\ ExecPending
    /\ now >= Ticks(EXEC_BOUNDARY_SECS)
    /\ ExecReturns("Timeout", "boundary", exit_code, stdout)
    /\ UNCHANGED <<now, deadline, msg_due, stdout, exit_code, got_eof, rx>>
    /\ UNCHANGED notExecVars

\* time passes while the call waits; no armed timer is overrun
Tick ==
    /\ ExecPending
    /\ now < Ticks(EXEC_BOUNDARY_SECS)
    /\ now' = now + 1
    /\ UNCHANGED <<x_pc, deadline, msg_due, stdout, exit_code, got_eof, rx, why, json>>
    /\ UNCHANGED notExecVars

ExecNext ==
    \/ \E s \in Sessions : ExecCall(s)
    \/ LockAcquired
    \/ \E ok \in BOOLEAN : ChannelOpen(ok)
    \/ \E ok \in BOOLEAN : ExecRequest(ok)
    \/ \E msg \in ChannelMsgs : ChannelMsg(msg)
    \/ ChannelEnded
    \/ MsgTimeout
    \/ BoundaryTimeout
    \/ Tick

SpecExec == ExecInit /\ [][ExecNext]_vars

\* ------------------------------------------------ a session with nothing in progress
SessionAtRest(h) ==
    /\ known_hosts = [hp \in HostPorts |-> NoKey]
    /\ config = [s \in Sessions |-> [hostport |-> 1, auth |-> "Password"]]
    /\ handle = [s \in Sessions |-> h]
    /\ pc = [s \in Sessions |-> "idle"]
    /\ result = [s \in Sessions |-> NoResult]
    /\ hk = [s \in Sessions |-> NoCheck]
    /\ connected = [s \in Sessions |-> h # None]
    /\ tofu = [hp \in HostPorts |-> [first |-> NoKey, persisted |-> NoKey]]

\* ------------------------------------------------ the blocking calls of the boundary
\* pier_ssh_connect maps auth_type 0 and 1 only
BoundaryAuth == {"Password", "KeyFile"}
HandleCalls == {"ssh_exec", "ssh_detect_services", "ssh_forward_port", "ssh_disconnect"}
NoDeadline == -1

\* the timeout armed around what the call waits for in this phase, in ticks
wait_deadline(op, phase) ==
    CASE op = "ssh_connect" /\ phase = "handshake" -> Ticks(CONNECT_TIMEOUT_SECS)
      [] op = "ssh_connect" /\ phase = "auth" -> NoDeadline
      [] op = "ssh_exec" -> Ticks(EXEC_BOUNDARY_SECS)
      [] op = "ssh_detect_services" -> Ticks(DETECT_BOUNDARY_SECS)
      [] op = "ssh_forward_port" -> Ticks(FORWARD_BOUNDARY_SECS)
      [] op = "ssh_disconnect" -> Ticks(DISCONNECT_TIMEOUT_SECS)

Blocked == b_phase \in {"handshake", "auth", "wait"}

BoundaryReturns(how, h) ==
    /\ b_phase' = "returned"
    /\ b_ret' = how
    /\ b_handle' = h
    /\ b_elapsed' = 0

\* pier_ssh_connect: SshSession::new, block_on(session.connect())
CallConnect(auth) ==
    /\ b_phase = "idle"
    /\ b_handle = "null"
    /\ b_op' = "ssh_connect"
    /\ b_auth' = auth
    /\ b_phase' = "handshake"
    /\ b_elapsed' = 0
    /\ b_server' = "responsive"
    /\ UNCHANGED <<b_handle, b_ret>>
    /\ UNCHANGED notBoundVars

\* pier_ssh_exec / detect_services / forward_port / disconnect on a non-null handle
CallOnHandle(op) ==
    /\ b_phase = "idle"
    /\ b_handle = "live"
    /\ b_op' = op
    /\ b_phase' = "wait"
    /\ b_elapsed' = 0
    /\ UNCHANGED <<b_auth, b_server, b_handle, b_ret>>
    /\ UNCHANGED notBoundVars

\* connect(): client::connect completes inside its 10 s timeout; authentication begins
HandshakeDone(ok) ==
    /\ b_phase = "handshake"
    /\ b_server = "responsive"
    /\ IF ok
       THEN /\ b_phase' = "auth"
            /\ b_elapsed' = 0
            /\ UNCHANGED <<b_handle, b_ret>>
       ELSE BoundaryReturns("error", "null")
    /\ UNCHANGED <<b_op, b_auth, b_server>>
    /\ UNCHANGED notBoundVars

\* connect(): load_secret_key fails, a local error
KeyLoadError ==
    /\ b_phase = "auth"
    /\ b_auth = "KeyFile"
    /\ BoundaryReturns("error", "null")
    /\ UNCHANGED <<b_op, b_auth, b_server>>
    /\ UNCHANGED notBoundVars

\* connect(): the server answers authenticate_password / authenticate_publickey
AuthAnswered(success) ==
    /\ b_phase = "auth"
    /\ b_server = "responsive"
    /\ BoundaryReturns(IF success THEN "ok" ELSE "error", IF success THEN "live" ELSE "null")
    /\ UNCHANGED <<b_op, b_auth, b_server>>
    /\ UNCHANGED notBoundVars

\* the awaited future completes before the timeout around it; ssh_disconnect frees
\* the handle however it ends
WaitDone(ok) ==
    /\ b_phase = "wait"
    /\ b_server = "responsive" \/ b_op = "ssh_forward_port"
    /\ BoundaryReturns(IF ok THEN "ok" ELSE "error",
                       IF b_op = "ssh_disconnect" THEN "null" ELSE b_handle)
    /\ UNCHANGED <<b_op, b_auth, b_server>>
    /\ UNCHANGED notBoundVars

\* time passes on the timeout armed around the current wait
BoundaryTick ==
    /\ Blocked
    /\ wait_deadline(b_op, b_phase) # NoDeadline
    /\ b_elapsed < wait_deadline(b_op, b_phase)
    /\ b_elapsed' = b_elapsed + 1
    /\ UNCHANGED <<b_op, b_phase, b_auth, b_server, b_handle, b_ret>>
    /\ UNCHANGED notBoundVars

\* tokio::time::timeout elapses: the call returns without what it waited for
WaitTimeout ==
    /\ Blocked
    /\ wait_deadline(b_op, b_phase) # NoDeadline
    /\ b_elapsed >= wait_deadline(b_op, b_phase)
    /\ BoundaryReturns("timeout",
                       IF b_op \in {"ssh_connect", "ssh_disconnect"} THEN "null" ELSE b_handle)
    /\ UNCHANGED <<b_op, b_auth, b_server>>
    /\ UNCHANGED notBoundVars

\* the server stops responding (silent peer: no reply, no reset)
ServerStops ==
    /\ Blocked
    /\ b_server = "responsive"
    /\ b_server' = "silent"
    /\ UNCHANGED <<b_op, b_phase, b_auth, b_elapsed, b_handle, b_ret>>
    /\ UNCHANGED notBoundVars

\* the host thread has the call's result and is free to call again
HostResumes ==
    /\ b_phase = "returned"
    /\ b_phase' = "idle"
    /\ b_server' = IF b_handle = "null" THEN "responsive" ELSE b_server
    /\ UNCHANGED <<b_op, b_auth, b_elapsed, b_handle, b_ret>>
    /\ UNCHANGED notBoundVars

BoundInit ==
    /\ BoundaryIdle
    /\ SessionAtRest(None)
    /\ ExecIdle
    /\ LibIdle
    /\ MutexIdle
    /\ ForwardIdle
    /\ EmuIdle

BoundNext ==
    \/ \E auth \in BoundaryAuth : CallConnect(auth)
    \/ \E op \in HandleCalls : CallOnHandle(op)
    \/ \E ok \in BOOLEAN : HandshakeDone(ok)
    \/ KeyLoadError
    \/ \E success \in BOOLEAN : AuthAnswered(success)
    \/ \E ok \in BOOLEAN : WaitDone(ok)
    \/ BoundaryTick
    \/ WaitTimeout
    \/ ServerStops
    \/ HostResumes

\* timers run and fire; a responsive server answers; a silent one need not
BoundFairness ==
    /\ WF_vars(BoundaryTick)
    /\ WF_vars(WaitTimeout)
    /\ WF_vars(\E ok \in BOOLEAN : HandshakeDone(ok))
    /\ WF_vars(\E success \in BOOLEAN : AuthAnswered(success))
    /\ WF_vars(\E ok \in BOOLEAN : WaitDone(ok))

SpecBoundary == BoundInit /\ [][BoundNext]_vars /\ BoundFairness

\* ------------------------------------------------ tasks sharing the transport mutex
\* exec_command is called on the session
TaskExecCall(t) ==
    /\ m_pc[t] = "idle"
    /\ m_pc' = [m_pc EXCEPT ![t] = "lock"]
    /\ UNCHANGED m_owner
    /\ UNCHANGED notMutexVars

\* exec_command: `let handle = handle.lock().await;` - the guard lives to the end of the fn
TaskExecLocked(t) ==
    /\ m_pc[t] = "lock"
    /\ m_owner = NoTask
    /\ m_owner' = t
    /\ m_pc' = [m_pc EXCEPT ![t] = "open"]
    /\ UNCHANGED notMutexVars

\* exec_command: channel_open_session().await? then channel.exec().await?
TaskExecStep(t, ok) ==
    /\ m_pc[t] \in {"open", "exec"}
    /\ m_owner = t
    /\ IF ok
       THEN /\ m_pc' = [m_pc EXCEPT ![t] = IF m_pc[t] = "open" THEN "exec" ELSE "loop"]
            /\ UNCHANGED m_owner
       ELSE /\ m_pc' = [m_pc EXCEPT ![t] = "idle"]
            /\ m_owner' = NoTask
    /\ UNCHANGED notMutexVars

\* exec_command: the message loop ends and the function returns, dropping the guard
TaskExecReturns(t) ==
    /\ m_pc[t] = "loop"
    /\ m_owner = t
    /\ m_pc' = [m_pc EXCEPT ![t] = "idle"]
    /\ m_owner' = NoTask
    /\ UNCHANGED notMutexVars

\* start_port_forward's listener accepts a connection and spawns its task
FwdAccepted ==
    /\ m_pc[FwdTask] = "idle"
    /\ m_pc' = [m_pc EXCEPT ![FwdTask] = "lock"]
    /\ UNCHANGED m_owner
    /\ UNCHANGED notMutexVars

\* handle_forward_connection: `let h = handle.lock().await;`
FwdLocked ==
    /\ m_pc[FwdTask] = "lock"
    /\ m_owner = NoTask
    /\ m_owner' = FwdTask
    /\ m_pc' = [m_pc EXCEPT ![FwdTask] = "open"]
    /\ UNCHANGED notMutexVars

\* a forward task without the drop(h): the guard lives on into the copy loop
FwdOpenedKeepsGuard(ok) ==
    /\ m_pc[FwdTask] = "open"
    /\ m_owner = FwdTask
    /\ m_owner' = IF ok THEN FwdTask ELSE NoTask
    /\ m_pc' = [m_pc EXCEPT ![FwdTask] = IF ok THEN "copy" ELSE "idle"]
    /\ UNCHANGED notMutexVars

\* handle_forward_connection: channel_open_direct_tcpip().await? ; drop(h)
FwdOpened(ok) ==
    /\ m_pc[FwdTask] = "open"
    /\ m_owner = FwdTask
    /\ m_owner' = NoTask
    /\ m_pc' = [m_pc EXCEPT ![FwdTask] = IF ok THEN "copy" ELSE "idle"]
    /\ UNCHANGED notMutexVars

\* handle_forward_connection: the copy loop breaks
FwdEnded ==
    /\ m_pc[FwdTask] = "copy"
    /\ m_pc' = [m_pc EXCEPT ![FwdTask] = "idle"]
    /\ UNCHANGED m_owner
    /\ UNCHANGED notMutexVars

MutexInit ==
    /\ MutexIdle
    /\ SessionAtRest(Some)
    /\ ExecIdle
    /\ LibIdle
    /\ BoundaryIdle
    /\ ForwardIdle
    /\ EmuIdle

MutexNext ==
    \/ \E t \in ExecTasks : TaskExecCall(t)
    \/ \E t \in ExecTasks : TaskExecLocked(t)
    \/ \E t \in ExecTasks, ok \in BOOLEAN : TaskExecStep(t, ok)
    \/ \E t \in ExecTasks : TaskExecReturns(t)
    \/ FwdAccepted
    \/ FwdLocked
    \/ \E ok \in BOOLEAN : FwdOpened(ok)
    \/ FwdEnded

SpecMutex == MutexInit /\ [][MutexNext]_vars

\* ------------------------------------------------ port forwarding
\* active_forwards(): the keys of the map
active_forwards == {p \in Ports : forwards[p]}

\* the listener of an accept loop still holds 127.0.0.1:p
ListenerBound(p) == loops[p] = "running"

\* a receiver of port p's channel is alive: the accept loop's, or a connection task's clone
HasReceiver(p) ==
    \/ loops[p] = "running"
    \/ \E i \in ConnIds : conns[i].port = p /\ conns[i].pc # "none" /\ ~conns[i].rx.closed

\* start_port_forward's checks, in the order of the code
start_outcome(fw, h, p, bind_ok) ==
    IF fw[p] THEN "AlreadyForwarded"
    ELSE IF h = None THEN "NotConnected"
    ELSE IF ~bind_ok THEN "BindFailed"
    ELSE "Ok"

start_forwards_before_bind(fw, outcome, p) ==
    IF outcome \in {"Ok", "BindFailed"} THEN [fw EXCEPT ![p] = TRUE] ELSE fw

\* start_port_forward: forwards.insert(local_port, cancel_tx), reached on success only
start_forwards(fw, outcome, p) ==
    IF outcome = "Ok" THEN [fw EXCEPT ![p] = TRUE] ELSE fw

stop_forwards_keeps(fw, p) == fw

\* stop_port_forward: forwards.remove(&local_port)
stop_forwards(fw, p) == [fw EXCEPT ![p] = FALSE]

\* tx.send(true) and then the sender is dropped; send stores nothing without a receiver
send_true_and_drop(ch, has_rx) ==
    [value |-> IF has_rx THEN TRUE ELSE ch.value, closed |-> TRUE]

\* an accept loop that takes the loss of its sender for no cancellation
accept_cancelled_by_value(ch) == ch.value

\* accept loop: rx.changed().await.is_err() || *rx.borrow()
accept_cancelled(ch) == ch.closed \/ ch.value

conn_cancelled_while_open(ch) == ch.value /\ ~ch.closed

\* connection task: cancel_rx.changed() fires, res.is_err() || *cancel_rx.borrow()
conn_cancelled(ch) == ch.closed \/ ch.value

\* what every live receiver of port p's current channel shows after the sender did send/drop
Latch(P) ==
    /\ signals' = [p \in Ports |->
                      IF p \in P THEN send_true_and_drop(signals[p], HasReceiver(p))
                      ELSE signals[p]]
    /\ conns' = [i \in ConnIds |->
                    IF conns[i].port \in P /\ conns[i].pc # "none" /\ ~conns[i].rx.closed
                    THEN [conns[i] EXCEPT !.rx = send_true_and_drop(@, TRUE)]
                    ELSE conns[i]]

StartPortForward(p, bind_ok) ==
    LET outcome == start_outcome(forwards, handle[1], p, bind_ok)
    IN  /\ bind_ok => ~ListenerBound(p)
        /\ forwards' = start_forwards(forwards, outcome, p)
        /\ IF outcome = "Ok"
           THEN /\ signals' = [signals EXCEPT ![p] = NewChannel]
                /\ loops' = [loops EXCEPT ![p] = "running"]
                /\ started' = started \cup {p}
           ELSE UNCHANGED <<signals, loops, started>>
        /\ f_ret' = IF outcome = "Ok" THEN "Ok" ELSE "Err"
        /\ UNCHANGED conns
        /\ UNCHANGED notFwdVars

StopPortForward(p) ==
    /\ IF forwards[p]
       THEN /\ forwards' = stop_forwards(forwards, p)
            /\ Latch({p})
            /\ f_ret' = "Ok"
       ELSE /\ UNCHANGED <<forwards, signals, conns>>
            /\ f_ret' = "Err"
    /\ started' = started \ {p}
    /\ UNCHANGED loops
    /\ UNCHANGED notFwdVars

\* stop_all_forwards: forwards.drain(), send(true) on each
StopAllForwards ==
    /\ forwards' = [p \in Ports |-> FALSE]
    /\ Latch(active_forwards)
    /\ f_ret' = "Ok"
    /\ started' = {}
    /\ UNCHANGED loops
    /\ UNCHANGED notFwdVars

\* accept loop: listener.accept() wins the select; a task is spawned with rx.clone()
Accepted(p, i) ==
    /\ loops[p] = "running"
    /\ conns[i].pc = "none"
    /\ conns' = [conns EXCEPT ![i] = [port |-> p, pc |-> "open", rx |-> signals[p]]]
    /\ UNCHANGED <<forwards, signals, loops, f_ret, started>>
    /\ UNCHANGED notFwdVars

\* accept loop: the cancel branch wins the select; the loop breaks and drops the listener
LoopCancelled(p) ==
    /\ loops[p] = "running"
    /\ accept_cancelled(signals[p])
    /\ loops' = [loops EXCEPT ![p] = "exited"]
    /\ UNCHANGED <<forwards, signals, conns, f_ret, started>>
    /\ UNCHANGED notFwdVars

\* the task returns and is gone
ConnReturns(i) == conns' = [conns EXCEPT ![i] = NoConn]

\* handle_forward_connection: lock, channel_open_direct_tcpip().await?, drop(h)
ConnOpened(i, ok) ==
    /\ conns[i].pc = "open"
    /\ IF ok THEN conns' = [conns EXCEPT ![i].pc = "copy"] ELSE ConnReturns(i)
    /\ UNCHANGED <<forwards, signals, loops, f_ret, started>>
    /\ UNCHANGED notFwdVars

\* copy loop: the cancel branch wins the select
ConnCancelled(i) ==
    /\ conns[i].pc = "copy"
    /\ conn_cancelled(conns[i].rx)
    /\ ConnReturns(i)
    /\ UNCHANGED <<forwards, signals, loops, f_ret, started>>
    /\ UNCHANGED notFwdVars

\* copy loop: a read of n > 0 bytes or a Data message wins; the task awaits the write
ConnRead(i) ==
    /\ conns[i].pc = "copy"
    /\ conns' = [conns EXCEPT ![i].pc = "write"]
    /\ UNCHANGED <<forwards, signals, loops, f_ret, started>>
    /\ UNCHANGED notFwdVars

\* copy loop: channel.data() / write_all() completes; an error breaks the loop
ConnWritten(i, ok) ==
    /\ conns[i].pc = "write"
    /\ IF ok THEN conns' = [conns EXCEPT ![i].pc = "copy"] ELSE ConnReturns(i)
    /\ UNCHANGED <<forwards, signals, loops, f_ret, started>>
    /\ UNCHANGED notFwdVars

\* copy loop: Ok(0) | Err(_) on the TCP read, or Eof | None on the channel
ConnEnded(i) ==
    /\ conns[i].pc = "copy"
    /\ ConnReturns(i)
    /\ UNCHANGED <<forwards, signals, loops, f_ret, started>>
    /\ UNCHANGED notFwdVars

FwdInit ==
    /\ ForwardIdle
    /\ \E h \in {None, Some} : SessionAtRest(h)
    /\ ExecIdle
    /\ LibIdle
    /\ BoundaryIdle
    /\ MutexIdle
    /\ EmuIdle

FwdNext ==
    \/ \E p \in Ports, bind_ok \in BOOLEAN : StartPortForward(p, bind_ok)
    \/ \E p \in Ports : StopPortForward(p)
    \/ StopAllForwards
    \/ \E p \in Ports, i \in ConnIds : Accepted(p, i)
    \/ \E p \in Ports : LoopCancelled(p)
    \/ \E i \in ConnIds, ok \in BOOLEAN : ConnOpened(i, ok)
    \/ \E i \in ConnIds : ConnCancelled(i)
    \/ \E i \in ConnIds : ConnRead(i)
    \/ \E i \in ConnIds, ok \in BOOLEAN : ConnWritten(i, ok)
    \/ \E i \in ConnIds : ConnEnded(i)

\* the executor polls every spawned task; select! picks among ready branches at random,
\* so a branch that is ready again and again is taken; a pending write completes or fails
FwdFairness ==
    /\ \A p \in Ports : WF_vars(LoopCancelled(p))
    /\ \A i \in ConnIds : SF_vars(ConnCancelled(i))
    /\ \A i \in ConnIds : WF_vars(\E ok \in BOOLEAN : ConnWritten(i, ok))

SpecForward == FwdInit /\ [][FwdNext]_vars /\ FwdFairness

\* ------------------------------------------------ ssh_disconnect and the forwards
\* the SshSession behind the handle was dropped with its Box: no field is left
Freed == "Freed"
SessionLive == handle[1] # Freed

\* the HashMap of senders is dropped with the session: each sender goes without a send
drop_sender(ch) == [ch EXCEPT !.closed = TRUE]

\* what every live receiver of port p's current channel shows once the sender is dropped
DropSenders(P) ==
    /\ signals' = [p \in Ports |-> IF p \in P THEN drop_sender(signals[p]) ELSE signals[p]]
    /\ conns' = [i \in ConnIds |->
                    IF conns[i].port \in P /\ conns[i].pc # "none" /\ ~conns[i].rx.closed
                    THEN [conns[i] EXCEPT !.rx = drop_sender(@)]
                    ELSE conns[i]]

\* pier_ssh_disconnect: Box::from_raw, block_on(session.disconnect()) - which takes the
\* transport and always returns Ok - and the session is dropped at the end of the call
SshDisconnect ==
    /\ SessionLive
    /\ handle' = [handle EXCEPT ![1] = Freed]
    /\ forwards' = [p \in Ports |-> FALSE]
    /\ DropSenders(active_forwards)
    /\ f_ret' = "Ok"
    /\ UNCHANGED <<loops, started>>
    /\ UNCHANGED <<known_hosts, config, pc, result, hk, tofu, connected>>
    /\ UNCHANGED <<execVars, boundVars, mutexVars, emuVars, libVars>>

\* the host calls into the session only while it holds the handle
SessionCall ==
    /\ SessionLive
    /\ \/ \E p \in Ports, bind_ok \in BOOLEAN : StartPortForward(p, bind_ok)
       \/ \E p \in Ports : StopPortForward(p)
       \/ StopAllForwards

DisconnectNext ==
    \/ SessionCall
    \/ SshDisconnect
    \/ \E p \in Ports, i \in ConnIds : Accepted(p, i)
    \/ \E p \in Ports : LoopCancelled(p)
    \/ \E i \in ConnIds, ok \in BOOLEAN : ConnOpened(i, ok)
    \/ \E i \in ConnIds : ConnCancelled(i)
    \/ \E i \in ConnIds : ConnRead(i)
    \/ \E i \in ConnIds, ok \in BOOLEAN : ConnWritten(i, ok)
    \/ \E i \in ConnIds : ConnEnded(i)

\* the tasks outlive the session on the static runtime, polled as before
SpecDisconnect == FwdInit /\ [][DisconnectNext]_vars /\ FwdFairness

\* ------------------------------------------------ VtEmulator: the Perform callbacks
\* usize::saturating_sub
SatSub(a, n) == IF a >= n THEN a - n ELSE 0

\* cells[y][x] = Cell::default() for every x of xs (0-based)
ClearCells(cells, y, xs) ==
    [cells EXCEPT ![y + 1] = [x \in 1..Len(cells[y + 1]) |->
                                 IF (x - 1) \in xs THEN DefaultCell ELSE cells[y + 1][x]]]

\* the same for every row of ys (0-based), all columns
ClearRows(cells, ys, cols) ==
    [y \in 1..Len(cells) |->
        IF (y - 1) \in ys THEN [x \in 1..Len(cells[y]) |->
                                   IF x <= cols THEN DefaultCell ELSE cells[y][x]]
        ELSE cells[y]]

scroll_up_keeps_top(e) == [e EXCEPT !.cells = Append(SubSeq(e.cells, 1, Len(e.cells) - 1),
                                                     VecOf(DefaultCell, e.cols))]

\* cells.remove(0); cells.push(blank row)
scroll_up(e) == [e EXCEPT !.cells = Append(Tail(e.cells), VecOf(DefaultCell, e.cols))]

newline(e) ==
    LET e1 == [e EXCEPT !.cursor_x = 0]
    IN  IF e1.cursor_y + 1 >= e1.rows THEN scroll_up(e1) ELSE [e1 EXCEPT !.cursor_y = @ + 1]

print_no_advance(e, ch) ==
    LET e1 == IF e.cursor_x >= e.cols THEN newline(e) ELSE e
    IN  IF e1.cursor_y < Len(e1.cells) /\ e1.cursor_x < e1.cols
        THEN [e1 EXCEPT !.cells[e1.cursor_y + 1][e1.cursor_x + 1].ch = ch]
        ELSE e1

print(e, ch) ==
    LET e1 == IF e.cursor_x >= e.cols THEN newline(e) ELSE e
    IN  IF e1.cursor_y < Len(e1.cells) /\ e1.cursor_x < e1.cols
        THEN [e1 EXCEPT !.cells[e1.cursor_y + 1][e1.cursor_x + 1].ch = ch,
                        !.cursor_x = @ + 1]
        ELSE e1

execute_never_scrolls(e, byte) ==
    CASE byte \in {"LF", "VT", "FF"} ->
            IF e.cursor_y + 1 >= e.rows THEN e ELSE [e EXCEPT !.cursor_y = @ + 1]
      [] byte = "CR" -> [e EXCEPT !.cursor_x = 0]
      [] OTHER -> e

\* the C0 controls execute() tells apart, and one it ignores
ControlBytes == {"LF", "VT", "FF", "CR", "BS", "HT", "BEL", "NUL"}

execute(e, byte) ==
    CASE byte \in {"LF", "VT", "FF"} ->
            IF e.cursor_y + 1 >= e.rows THEN scroll_up(e) ELSE [e EXCEPT !.cursor_y = @ + 1]
      [] byte = "CR" -> [e EXCEPT !.cursor_x = 0]
      [] byte = "BS" -> IF e.cursor_x > 0 THEN [e EXCEPT !.cursor_x = @ - 1] ELSE e
      [] byte = "HT" -> [e EXCEPT !.cursor_x = Min((e.cursor_x \div 8 + 1) * 8, e.cols - 1)]
      [] OTHER -> e

\* `for x in 0..=cursor_x`: indexing cells[cursor_y][cols] panics, after the cells before it
erase_to_cursor(e) ==
    [e EXCEPT !.cells = ClearCells(e.cells, e.cursor_y, 0..Min(e.cursor_x, e.cols - 1)),
              !.panicked = e.cursor_x >= e.cols]

cursor_position_unclamped(e, first, second) ==
    [e EXCEPT !.cursor_y = (IF first = 0 THEN 1 ELSE first) - 1,
              !.cursor_x = (IF second = 0 THEN 1 ELSE second) - 1]

\* 'H' | 'f'
cursor_position(e, first, second) ==
    [e EXCEPT !.cursor_y = Min((IF first = 0 THEN 1 ELSE first) - 1, e.rows - 1),
              !.cursor_x = Min((IF second = 0 THEN 1 ELSE second) - 1, e.cols - 1)]

erase_display_all_keeps_cursor_row(e) ==
    [e EXCEPT !.cells = ClearRows(e.cells, (0..(e.rows - 1)) \ {e.cursor_y}, e.cols)]

\* 'J' with 2 | 3
erase_display_all(e) == [e EXCEPT !.cells = ClearRows(e.cells, 0..(e.rows - 1), e.cols)]

CsiActions == {"A", "B", "C", "D", "H", "f", "J", "K", "m"}

csi_dispatch(e, first, second, action) ==
    LET n == IF first = 0 THEN 1 ELSE first
    IN  CASE action = "A" -> [e EXCEPT !.cursor_y = SatSub(e.cursor_y, n)]
          [] action = "B" -> [e EXCEPT !.cursor_y = Min(e.cursor_y + n, e.rows - 1)]
          [] action = "C" -> [e EXCEPT !.cursor_x = Min(e.cursor_x + n, e.cols - 1)]
          [] action = "D" -> [e EXCEPT !.cursor_x = SatSub(e.cursor_x, n)]
          [] action \in {"H", "f"} -> cursor_position(e, first, second)
          [] action = "J" /\ first = 0 ->
                [e EXCEPT !.cells = ClearRows(
                                        ClearCells(e.cells, e.cursor_y, e.cursor_x..(e.cols - 1)),
                                        (e.cursor_y + 1)..(e.rows - 1), e.cols)]
          [] action = "J" /\ first = 1 ->
                erase_to_cursor([e EXCEPT !.cells = ClearRows(e.cells, 0..(e.cursor_y - 1), e.cols)])
          [] action = "J" /\ first \in {2, 3} -> erase_display_all(e)
          [] action = "K" /\ first = 0 ->
                [e EXCEPT !.cells = ClearCells(e.cells, e.cursor_y, e.cursor_x..(e.cols - 1))]
          [] action = "K" /\ first = 1 -> erase_to_cursor(e)
          [] action = "K" /\ first = 2 ->
                [e EXCEPT !.cells = ClearCells(e.cells, e.cursor_y, 0..(e.cols - 1))]
          [] OTHER -> e

resize_keeps_cursor(e, cols, rows) ==
    LET grown == VecResize(e.cells, rows, VecOf(DefaultCell, cols))
    IN  [e EXCEPT !.cols = cols, !.rows = rows,
                  !.cells = [y \in 1..Len(grown) |-> VecResize(grown[y], cols, DefaultCell)]]

\* VtEmulator::resize
resize(e, cols, rows) ==
    LET grown == VecResize(e.cells, rows, VecOf(DefaultCell, cols))
    IN  [e EXCEPT !.cols = cols, !.rows = rows,
                  !.cells = [y \in 1..Len(grown) |-> VecResize(grown[y], cols, DefaultCell)],
                  !.cursor_x = IF e.cursor_x >= cols THEN cols - 1 ELSE e.cursor_x,
                  !.cursor_y = IF e.cursor_y >= rows THEN rows - 1 ELSE e.cursor_y]

\* ------------------------------------------------ VtEmulator on small grids
Chars == {"x"}
ColCounts == 1..MaxCols
RowCounts == 1..MaxRows
\* parameter values: absent or zero, and up to one past the grid
CsiParams == 0..((IF MaxCols >= MaxRows THEN MaxCols ELSE MaxRows) + 1)

\* what e_last keeps of a csi_dispatch
CsiCall(first, second, action) ==
    CASE action \in {"H", "f"} -> [op |-> "cup", first |-> first, second |-> second]
      [] action = "J" /\ first \in {2, 3} -> [op |-> "ed_all", first |-> 0, second |-> 0]
      [] OTHER -> [op |-> "csi", first |-> 0, second |-> 0]

EmuPrint(ch) ==
    /\ ~emu.panicked
    /\ emu' = print(emu, ch)
    /\ e_last' = [op |-> "print", first |-> 0, second |-> 0]
    /\ UNCHANGED <<parser, feed, scenario>>
    /\ UNCHANGED notEmuVars

EmuExecute(byte) ==
    /\ ~emu.panicked
    /\ emu' = execute(emu, byte)
    /\ e_last' = [op |-> "execute", first |-> 0, second |-> 0]
    /\ UNCHANGED <<parser, feed, scenario>>
    /\ UNCHANGED notEmuVars

EmuCsi(first, second, action) ==
    /\ ~emu.panicked
    /\ second # 0 => action \in {"H", "f"}
    /\ emu' = csi_dispatch(emu, first, second, action)
    /\ e_last' = CsiCall(first, second, action)
    /\ UNCHANGED <<parser, feed, scenario>>
    /\ UNCHANGED notEmuVars

EmuResize(cols, rows) ==
    /\ ~emu.panicked
    /\ emu' = resize(emu, cols, rows)
    /\ e_last' = [op |-> "resize", first |-> cols, second |-> rows]
    /\ UNCHANGED <<parser, feed, scenario>>
    /\ UNCHANGED notEmuVars

EmuInit ==
    /\ \E cols \in ColCounts, rows \in RowCounts : emu = new(cols, rows)
    /\ e_last = NoCall
    /\ parser = NewParser
    /\ feed = <<>>
    /\ scenario = "none"
    /\ SessionAtRest(None)
    /\ ExecIdle
    /\ LibIdle
    /\ BoundaryIdle
    /\ MutexIdle
    /\ ForwardIdle

EmuNext ==
    \/ \E ch \in Chars : EmuPrint(ch)
    \/ \E byte \in ControlBytes : EmuExecute(byte)
    \/ \E first \in CsiParams, second \in CsiParams, action \in CsiActions :
          EmuCsi(first, second, action)
    \/ \E cols \in ColCounts, rows \in RowCounts : EmuResize(cols, rows)

SpecEmu == EmuInit /\ [][EmuNext]_vars

\* ------------------------------------------------ VtEmulator::process on byte strings
SCENARIO_COLS == 80
SCENARIO_ROWS == 24

Digits == <<"0", "1", "2", "3", "4", "5", "6", "7", "8", "9">>
DigitValue(b) == (CHOOSE i \in 1..10 : Digits[i] = b) - 1
IsDigit(b) == \E i \in 1..10 : Digits[i] = b
Decimal(i) == IF i < 10 THEN <<Digits[i + 1]>> ELSE <<Digits[(i \div 10) + 1], Digits[(i % 10) + 1]>>

\* the line `L<i>` followed by LF
Line(i) == <<"L">> \o Decimal(i) \o <<"LF">>
RECURSIVE Lines(_, _)
Lines(from, to) == IF from > to THEN <<>> ELSE Line(from) \o Lines(from + 1, to)

HelloWorld == <<"H", "e", "l", "l", "o", ",", " ", "W", "o", "r", "l", "d", "!">>

\* the byte strings fed, by name
Scenarios ==
    [hello |-> HelloWorld,
     cursor |-> <<"ESC", "[", "5", ";", "1", "0", "H", "X">>,
     clear |-> <<"t", "e", "x", "t", "ESC", "[", "2", "J">>,
     lines |-> Lines(0, 24)]

NoPerform == [kind |-> "none", ch |-> " ", first |-> 0, second |-> 0]
Param(params, i) == IF Len(params) >= i THEN params[i] ELSE 0

\* Parser::advance on one byte: the parser's next state and the Perform callback it makes.
\* Ground: C0 controls are executed, ESC opens a sequence, anything else is printed.
\* CSI: digits and ';' collect parameters, any other byte is the final byte.
advance(ps, b) ==
    CASE ps.state = "ground" /\ b = "ESC" ->
            [parser |-> [NewParser EXCEPT !.state = "escape"], call |-> NoPerform]
      [] ps.state = "ground" /\ b \in ControlBytes ->
            [parser |-> ps, call |-> [NoPerform EXCEPT !.kind = "execute", !.ch = b]]
      [] ps.state = "ground" ->
            [parser |-> ps, call |-> [NoPerform EXCEPT !.kind = "print", !.ch = b]]
      [] ps.state = "escape" /\ b = "[" ->
            [parser |-> [NewParser EXCEPT !.state = "csi"], call |-> NoPerform]
      [] ps.state = "escape" ->
            [parser |-> NewParser, call |-> NoPerform]
      [] ps.state = "csi" /\ IsDigit(b) ->
            [parser |-> [ps EXCEPT !.cur = ps.cur * 10 + DigitValue(b)], call |-> NoPerform]
      [] ps.state = "csi" /\ b = ";" ->
            [parser |-> [ps EXCEPT !.params = Append(ps.params, ps.cur), !.cur = 0],
             call |-> NoPerform]
      [] OTHER ->
            LET params == Append(ps.params, ps.cur)
            IN  [parser |-> NewParser,
                 call |-> [kind |-> "csi", ch |-> b,
                           first |-> Param(params, 1), second |-> Param(params, 2)]]

\* the callback applied to the emulator
perform(e, call) ==
    CASE call.kind = "print" -> print(e, call.ch)
      [] call.kind = "execute" -> execute(e, call.ch)
      [] call.kind = "csi" -> csi_dispatch(e, call.first, call.second, call.ch)
      [] OTHER -> e

\* process(): the parser consumes the next byte
ProcessByte ==
    /\ feed # <<>>
    /\ ~emu.panicked
    /\ LET step == advance(parser, Head(feed))
       IN  /\ parser' = step.parser
           /\ emu' = perform(emu, step.call)
           /\ e_last' = IF step.call.kind = "csi"
                        THEN CsiCall(step.call.first, step.call.second, step.call.ch)
                        ELSE [op |-> step.call.kind, first |-> 0, second |-> 0]
    /\ feed' = Tail(feed)
    /\ UNCHANGED scenario
    /\ UNCHANGED notEmuVars

ScenarioInit ==
    /\ emu = new(SCENARIO_COLS, SCENARIO_ROWS)
    /\ e_last = NoCall
    /\ parser = NewParser
    /\ scenario \in DOMAIN Scenarios
    /\ feed = Scenarios[scenario]
    /\ SessionAtRest(None)
    /\ ExecIdle
    /\ LibIdle
    /\ BoundaryIdle
    /\ MutexIdle
    /\ ForwardIdle

ScenarioNext == ProcessByte

SpecScenario == ScenarioInit /\ [][ScenarioNext]_vars

ConnInit ==
    /\ known_hosts \in [HostPorts -> Keys \cup {NoKey}]
    /\ config \in [Sessions -> [hostport : HostPorts, auth : AuthMethods]]
    /\ handle = [s \in Sessions |-> None]
    /\ pc = [s \in Sessions |-> "idle"]
    /\ result = [s \in Sessions |-> NoResult]
    /\ hk = [s \in Sessions |-> NoCheck]
    /\ connected = [s \in Sessions |-> FALSE]
    /\ tofu = [hp \in HostPorts |-> [first |-> NoKey, persisted |-> NoKey]]
    /\ ExecIdle
    /\ LibIdle
    /\ BoundaryIdle
    /\ MutexIdle
    /\ ForwardIdle
    /\ EmuIdle

ConnNext ==
    \E s \in Sessions :
        \/ ConnectStart(s)
        \/ \E k \in Keys, io_ok \in BOOLEAN : ServerKey(s, k, io_ok)
        \/ ConnectEstablished(s)
        \/ ConnectTimeout(s)
        \/ ConnectError(s)
        \/ AuthAgent(s)
        \/ AuthKeyLoadError(s)
        \/ \E r \in {"Success", "Failure", "Error"} : AuthReply(s, r)
        \/ DisconnectNoHandle(s)
        \/ \E o \in {"Ok", "Err", "Timeout"} : DisconnectHandshake(s, o)

SpecConnect == ConnInit /\ [][ConnNext]_vars

\* ------------------------------------------------ PtyProcess and its child
\* errno of a failed libc::write on the non-blocking master
Errnos == {"EAGAIN", "EIO"}
\* what libc::write(fd, data, len) can give: n bytes taken, or -1 and an errno
WriteResults(len) ==
    {[len |-> len, n |-> n, errno |-> "none"] : n \in 0..len}
        \cup {[len |-> len, n |-> -1, errno |-> e] : e \in IF len > 0 THEN Errnos ELSE {}}

\* PtyProcess::write: Err(last_os_error()) when the result is negative, Ok(()) otherwise
pty_write(w) == IF w.n < 0 THEN "Err" ELSE "Ok"

\* pier_terminal_write on a live handle and non-null data
pier_terminal_write(w) == IF pty_write(w) = "Ok" THEN 0 ELSE -1

\* waitpid(child_pid, &status, WNOHANG): 0 while the child runs, its pid once it has exited
\* (1 stands for the pid)
waitpid_nohang(child) == IF child = "exited" THEN 1 ELSE 0

\* a drop that reaps no second time before it kills
after_reap_kills_at_once(at, waited) ==
    IF waited # 0 THEN "dropped" ELSE "kill"

\* Drop::drop: where it goes after the non-blocking reap at `at` returned `waited`
after_reap(at, waited) ==
    IF waited # 0 THEN "dropped"
    ELSE IF at = "reap1" THEN "sleep" ELSE "kill"

DropSteps == {"reap1", "sleep", "reap2", "kill", "wait"}

\* forkpty: the child runs the program, or there is no child and spawn returns Err
PtySpawn(ok) ==
    /\ pty.pc = "none" /\ pty.ret = "none"
    /\ pty' = IF ok THEN [pty EXCEPT !.pc = "open", !.child = "running", !.ret = "Ok"]
              ELSE [pty EXCEPT !.ret = "Err"]
    /\ UNCHANGED notPtyVars

\* terminal_write of len bytes; the kernel's answer is w
PtyWrite(w) ==
    /\ pty.pc = "open"
    /\ pty' = [pty EXCEPT !.wrote = w,
                          !.w_ret = pier_terminal_write(w)]
    /\ UNCHANGED notPtyVars

\* the child ends: by itself, on SIGTERM, or on SIGKILL; it stays a zombie until reaped
ChildExits ==
    /\ pty.child = "running"
    /\ pty' = [pty EXCEPT !.child = "exited"]
    /\ UNCHANGED notPtyVars

\* drop begins: kill(child_pid, SIGTERM)
DropTerm ==
    /\ pty.pc = "open"
    /\ pty' = [pty EXCEPT !.pc = "reap1", !.sigterm = TRUE]
    /\ UNCHANGED notPtyVars

\* waitpid(.., WNOHANG), the first and the second time
DropReap ==
    /\ pty.pc \in {"reap1", "reap2"}
    /\ LET waited == waitpid_nohang(pty.child)
       IN  pty' = [pty EXCEPT !.pc = after_reap(pty.pc, waited),
                              !.child = IF waited # 0 THEN "reaped" ELSE @,
                              !.reaps = IF waited = 0 THEN @ + 1 ELSE @]
    /\ UNCHANGED notPtyVars

\* thread::sleep(100 ms)
DropSleep ==
    /\ pty.pc = "sleep"
    /\ pty' = [pty EXCEPT !.pc = "reap2", !.slept = TRUE]
    /\ UNCHANGED notPtyVars

\* kill(child_pid, SIGKILL)
DropKill ==
    /\ pty.pc = "kill"
    /\ pty' = [pty EXCEPT !.pc = "wait", !.sigkill = TRUE]
    /\ UNCHANGED notPtyVars

\* waitpid(.., 0) returns once the child has exited
DropWait ==
    /\ pty.pc = "wait"
    /\ pty.child = "exited"
    /\ pty' = [pty EXCEPT !.pc = "dropped", !.child = "reaped"]
    /\ UNCHANGED notPtyVars

PtyInit ==
    /\ pty = NoPty
    /\ gin = NoInput
    /\ gst = NoLayout
    /\ det = NoDetect
    /\ SessionAtRest(None)
    /\ ExecIdle
    /\ BoundaryIdle
    /\ MutexIdle
    /\ ForwardIdle
    /\ EmuIdle
    /\ CallIdle

PtyNext ==
    \/ \E ok \in BOOLEAN : PtySpawn(ok)
    \/ \E len \in 0..MaxWrite : \E w \in WriteResults(len) : PtyWrite(w)
    \/ ChildExits
    \/ DropTerm
    \/ DropReap
    \/ DropSleep
    \/ DropKill
    \/ DropWait

\* drop runs on the calling thread to its end; a child sent SIGKILL ends
PtyFairness ==
    /\ WF_vars(DropReap)
    /\ WF_vars(DropSleep)
    /\ WF_vars(DropKill)
    /\ WF_vars(DropWait)
    /\ WF_vars(ChildExits /\ pty.sigkill)

SpecPty == PtyInit /\ [][PtyNext]_vars /\ PtyFairness

\* ------------------------------------------------ compute_graph_layout: phase 1, colours, edges
\* Rows are numbered from 1 here; the code numbers them from 0 (columns and colours keep
\* the code's numbering). A commit is [hash, parents, meta]: parents is the list the code
\* gets by splitting the parents string at ' ', meta stands for short_hash, message,
\* author, date_timestamp and refs.

\* hash_to_row.get(h): the row of the last commit with that hash (insert overwrites), 0 for None
hash_to_row(commits, h) ==
    LET S == {i \in DOMAIN commits : commits[i].hash = h}
    IN  IF S = {} THEN 0 ELSE CHOOSE i \in S : \A j \in S : j <= i

\* the rows of commit i's parents, in the order of its parent list (0: not in the input)
parent_rows(commits, i) ==
    [k \in DOMAIN commits[i].parents |-> hash_to_row(commits, commits[i].parents[k])]

\* the while loop of dfs_walk: li, current_li and the stack
RECURSIVE dfs_loop(_, _, _, _)
dfs_loop(commits, li, current, stack) ==
    IF stack = <<>> THEN [li |-> li, current |-> current]
    ELSE LET cur == stack[Len(stack)]
             first_visit == li[cur] = 0
             li1 == IF first_visit THEN [li EXCEPT ![cur] = current] ELSE li
             prs == parent_rows(commits, cur)
             unvisited == {k \in DOMAIN prs : prs[k] # 0 /\ li1[prs[k]] = 0}
         IN  IF unvisited # {}
             THEN LET k == CHOOSE k \in unvisited : \A j \in unvisited : k <= j
                  IN  dfs_loop(commits, li1, current, Append(stack, prs[k]))
             ELSE dfs_loop(commits, li1, IF first_visit THEN current + 1 ELSE current,
                           SubSeq(stack, 1, Len(stack) - 1))

\* dfs_walk from each row of `starts` in turn; a row already given an index is skipped
RECURSIVE dfs_walks(_, _, _, _)
dfs_walks(commits, li, current, starts) ==
    IF starts = <<>> THEN li
    ELSE IF li[Head(starts)] # 0 THEN dfs_walks(commits, li, current, Tail(starts))
    ELSE LET r == dfs_loop(commits, li, current, <<Head(starts)>>)
         IN  dfs_walks(commits, r.li, r.current, Tail(starts))

\* a set of rows as the ascending sequence (heads.sort(); for i in 0..n)
RECURSIVE Ascending(_)
Ascending(S) ==
    IF S = {} THEN <<>>
    ELSE LET m == CHOOSE i \in S : \A j \in S : i <= j
         IN  <<m>> \o Ascending(S \ {m})

Range(f) == {f[k] : k \in DOMAIN f}

assign_layout_indices(commits) ==
    LET n == Len(commits)
        parent_set == UNION {Range(parent_rows(commits, i)) : i \in 1..n}
        heads == {i \in 1..n : i \notin parent_set}
    IN  dfs_walks(commits, [i \in 1..n |-> 0], 1, Ascending(heads) \o Ascending(1..n))

\* a colour loop that gives every row off the main chain the next colour
RECURSIVE color_loop_fresh_each_row(_, _, _, _, _, _)
color_loop_fresh_each_row(commits, main_chain, layout_index, li_to_color, next_color, node_colors) ==
    LET i == Len(node_colors) + 1
    IN  IF i > Len(commits) THEN node_colors
        ELSE IF commits[i].hash \in main_chain
        THEN color_loop_fresh_each_row(commits, main_chain, layout_index, li_to_color,
                                       next_color, Append(node_colors, 0))
        ELSE color_loop_fresh_each_row(commits, main_chain, layout_index, li_to_color,
                                       next_color + 1, Append(node_colors, next_color))

\* a colour loop that looks the lane's colour up before it asks for the main chain
RECURSIVE color_loop_lane_first(_, _, _, _, _, _)
color_loop_lane_first(commits, main_chain, layout_index, li_to_color, next_color, node_colors) ==
    LET i == Len(node_colors) + 1
    IN  IF i > Len(commits) THEN node_colors
        ELSE LET li == layout_index[i]
             IN  IF li \in DOMAIN li_to_color
                 THEN color_loop_lane_first(commits, main_chain, layout_index, li_to_color,
                                            next_color, Append(node_colors, li_to_color[li]))
                 ELSE IF commits[i].hash \in main_chain
                 THEN color_loop_lane_first(commits, main_chain, layout_index, li_to_color,
                                            next_color, Append(node_colors, 0))
                 ELSE color_loop_lane_first(commits, main_chain, layout_index,
                                            li_to_color @@ (li :> next_color), next_color + 1,
                                            Append(node_colors, next_color))

\* the colour loop from row i on: li_to_color, next_color, node_colors so far
RECURSIVE color_loop(_, _, _, _, _, _)
color_loop(commits, main_chain, layout_index, li_to_color, next_color, node_colors) ==
    LET i == Len(node_colors) + 1
    IN  IF i > Len(commits) THEN node_colors
        ELSE LET li == layout_index[i]
             IN  IF commits[i].hash \in main_chain
                 THEN color_loop(commits, main_chain, layout_index, li_to_color, next_color,
                                 Append(node_colors, 0))
                 ELSE IF li \in DOMAIN li_to_color
                 THEN color_loop(commits, main_chain, layout_index, li_to_color, next_color,
                                 Append(node_colors, li_to_color[li]))
                 ELSE color_loop(commits, main_chain, layout_index,
                                 li_to_color @@ (li :> next_color), next_color + 1,
                                 Append(node_colors, next_color))

\* an edge list whose merge edges take the child's colour too
RECURSIVE edges_of_child_colour(_, _, _, _, _)
edges_of_child_colour(commits, layout_index, node_colors, child_row, pi) ==
    IF pi > Len(commits[child_row].parents) THEN <<>>
    ELSE LET parent_row == parent_rows(commits, child_row)[pi]
             rest == edges_of_child_colour(commits, layout_index, node_colors, child_row, pi + 1)
         IN  IF parent_row = 0 \/ parent_row <= child_row THEN rest
             ELSE <<[child_row |-> child_row,
                     parent_row |-> parent_row,
                     parent_index |-> pi - 1,
                     up_li |-> layout_index[child_row],
                     down_li |-> layout_index[parent_row],
                     color_index |-> node_colors[child_row]]>> \o rest

\* the edges commit child_row adds to all_edges, from parent pi on (pi counted from 1)
RECURSIVE edges_of(_, _, _, _, _)
edges_of(commits, layout_index, node_colors, child_row, pi) ==
    IF pi > Len(commits[child_row].parents) THEN <<>>
    ELSE LET parent_row == parent_rows(commits, child_row)[pi]
             rest == edges_of(commits, layout_index, node_colors, child_row, pi + 1)
         IN  IF parent_row = 0 \/ parent_row <= child_row THEN rest
             ELSE <<[child_row |-> child_row,
                     parent_row |-> parent_row,
                     parent_index |-> pi - 1,
                     up_li |-> layout_index[child_row],
                     down_li |-> layout_index[parent_row],
                     color_index |-> IF pi = 1 THEN node_colors[child_row]
                                     ELSE node_colors[parent_row]]>> \o rest

RECURSIVE all_edges(_, _, _, _)
all_edges(commits, layout_index, node_colors, child_row) ==
    IF child_row > Len(commits) THEN <<>>
    ELSE edges_of(commits, layout_index, node_colors, child_row, 1)
             \o all_edges(commits, layout_index, node_colors, child_row + 1)

\* ------------------------------------------------ compute_graph_layout: phase 2, the row sweep
\* long_edge_size, visible_part_size, edge_with_arrow_size (i32::MAX when long edges are off)
mode(show_long_edges) ==
    IF show_long_edges
    THEN [long_edge_size |-> 1000, visible_part_size |-> 250, edge_with_arrow_size |-> 30]
    ELSE [long_edge_size |-> 30, visible_part_size |-> 1, edge_with_arrow_size |-> 2147483647]

is_edge_visible_in_row(child_row, parent_row, row, m) ==
    LET span == parent_row - child_row
        up_offset == row - child_row
        down_offset == parent_row - row
    IN  IF span >= m.long_edge_size
        THEN up_offset <= m.visible_part_size \/ down_offset <= m.visible_part_size
        ELSE IF span >= m.edge_with_arrow_size
        THEN up_offset <= 1 \/ down_offset <= 1
        ELSE TRUE

\* edge.parent_row.saturating_sub(1).min(n - 1), in rows counted from 1
last_intermediate(edge, n) == Min(edge.parent_row - 1, n)

\* edges_by_start.get(&row): the edges whose first intermediate row is this row
edges_by_start(edges, n, row) ==
    {ei \in DOMAIN edges : /\ edges[ei].child_row + 1 = row
                           /\ edges[ei].child_row + 1 <= last_intermediate(edges[ei], n)}

\* RowElement of the node of a row, and of an edge
NodeElement(li, row) ==
    [is_node |-> TRUE, edge_index |-> 0, up_li |-> li, down_li |-> li,
     up_row |-> row, down_row |-> row]
EdgeElement(edges, ei) ==
    [is_node |-> FALSE, edge_index |-> ei, up_li |-> edges[ei].up_li,
     down_li |-> edges[ei].down_li, up_row |-> edges[ei].child_row,
     down_row |-> edges[ei].parent_row]

compare2(e, n_elem) ==
    LET max_edge_li == IF e.up_li >= e.down_li THEN e.up_li ELSE e.down_li
    IN  IF max_edge_li # n_elem.up_li THEN max_edge_li - n_elem.up_li
        ELSE e.up_row - n_elem.up_row

compare_elements(lhs, rhs) ==
    IF ~lhs.is_node /\ ~rhs.is_node
    THEN IF lhs.up_row = rhs.up_row
         THEN IF lhs.down_row < rhs.down_row
              THEN 0 - compare2(rhs, NodeElement(lhs.down_li, lhs.down_row))
              ELSE compare2(lhs, NodeElement(rhs.down_li, rhs.down_row))
         ELSE IF lhs.up_row < rhs.up_row
              THEN compare2(lhs, NodeElement(rhs.up_li, rhs.up_row))
              ELSE 0 - compare2(rhs, NodeElement(lhs.up_li, lhs.up_row))
    ELSE IF ~lhs.is_node /\ rhs.is_node THEN compare2(lhs, rhs)
    ELSE IF lhs.is_node /\ ~rhs.is_node THEN 0 - compare2(rhs, lhs)
    ELSE 0

\* slice::sort_by on a short slice (at most 20 elements): insertion sort, each element
\* moved left past the elements it compares less than
RECURSIVE insert_tail(_, _)
insert_tail(sorted, x) ==
    IF sorted = <<>> THEN <<x>>
    ELSE IF compare_elements(x, sorted[Len(sorted)]) < 0
    THEN Append(insert_tail(SubSeq(sorted, 1, Len(sorted) - 1), x), sorted[Len(sorted)])
    ELSE Append(sorted, x)

RECURSIVE sort_by(_)
sort_by(elements) ==
    IF Len(elements) <= 1 THEN elements
    ELSE insert_tail(sort_by(SubSeq(elements, 1, Len(elements) - 1)), elements[Len(elements)])

\* row elements without the visibility test: every active edge is an element
row_elements_unfiltered(edges, layout_index, n, row, order, m) ==
    <<NodeElement(layout_index[row], row)>> \o
    [k \in 1..Len(order) |-> EdgeElement(edges, order[k])]

\* the elements of a row before the sort: the node, then the visible active edges in the
\* order `order` in which the HashSet hands the active edges out
row_elements(edges, layout_index, n, row, order, m) ==
    LET visible(ei) == is_edge_visible_in_row(edges[ei].child_row,
                                              Min(edges[ei].parent_row, n), row, m)
        shown == SelectSeq(order, visible)
    IN  <<NodeElement(layout_index[row], row)>> \o
        [k \in 1..Len(shown) |-> EdgeElement(edges, shown[k])]

\* columns that skip the node's place among the edges: every edge counts from 0
columns_of_edges_from_zero(sorted) ==
    [node |-> (CHOOSE col \in 1..Len(sorted) : sorted[col].is_node) - 1,
     edges |-> {<<sorted[col].edge_index,
                  Cardinality({c \in 1..(col - 1) : ~sorted[c].is_node})>> :
                   col \in {c \in 1..Len(sorted) : ~sorted[c].is_node}}]

\* for (col, elem) in elements.iter().enumerate(): the node's column and the pairs
\* (edge index, column) put into edge_column_at_row[row]
columns_of(sorted) ==
    [node |-> (CHOOSE col \in 1..Len(sorted) : sorted[col].is_node) - 1,
     edges |-> {<<sorted[col].edge_index, col - 1>> :
                   col \in {c \in 1..Len(sorted) : ~sorted[c].is_node}}]

\* every order in which a HashSet can hand out the elements of S
Orders(S) ==
    {o \in [1..Cardinality(S) -> S] : \A i, j \in 1..Cardinality(S) : o[i] = o[j] => i = j}

\* ------------------------------------------------ compute_graph_layout: phase 3, segments and arrows
\* col as f32 * lw + lw / 2.0 + 4.0; lane_width and row_height are even integers here, so
\* that every half and every midpoint the code computes in f32 is a whole number
x_pos_from_left_edge(col, lw) == col * lw + 4

x_pos(col, lw) == col * lw + (lw \div 2) + 4

\* edge_column_at_row[row].get(&ei).copied().unwrap_or(default)
column_or(cols_at_row, ei, default) ==
    IF \E p \in cols_at_row : p[1] = ei
    THEN (CHOOSE p \in cols_at_row : p[1] = ei)[2]
    ELSE default

\* the anchor list of an edge: <<row, x>> for the child row, each visible row between,
\* and the parent row
anchors(edges, ei, n, node_columns, edge_column_at_row, m, lw) ==
    LET edge == edges[ei]
        clamped_parent == Min(edge.parent_row, n)
        between == SelectSeq([k \in 1..(clamped_parent - edge.child_row - 1) |-> edge.child_row + k],
                             LAMBDA r : is_edge_visible_in_row(edge.child_row, clamped_parent, r, m))
    IN  <<<<edge.child_row, x_pos(node_columns[edge.child_row], lw)>>>>
        \o [k \in 1..Len(between) |->
               <<between[k], x_pos(column_or(edge_column_at_row[between[k]], ei,
                                            node_columns[edge.child_row]), lw)>>]
        \o <<<<clamped_parent, x_pos(node_columns[clamped_parent], lw)>>>>

\* down_arrow_rows and up_arrow_rows of an edge
arrow_rows(edge, n, m) ==
    LET clamped_parent == Min(edge.parent_row, n)
        span == clamped_parent - edge.child_row
    IN  [down |-> (IF span >= m.long_edge_size
                   THEN {edge.child_row + m.visible_part_size} ELSE {})
                  \cup (IF span >= m.edge_with_arrow_size THEN {edge.child_row + 1} ELSE {}),
         up |-> (IF span >= m.long_edge_size /\ clamped_parent - 1 >= m.visible_part_size
                 THEN {clamped_parent - m.visible_part_size} ELSE {})
                \cup (IF span >= m.edge_with_arrow_size /\ clamped_parent - 1 >= 1
                      THEN {clamped_parent - 1} ELSE {})]

\* a PrintSegment, with the row it is pushed to and (history) the edge it is drawn for
Segment(row, x_top, y_top, x_bottom, y_bottom, edge) ==
    [row |-> row, x_top |-> x_top, y_top |-> y_top, x_bottom |-> x_bottom,
     y_bottom |-> y_bottom, color_index |-> edge.ci, ei |-> edge.ei]

\* the half-row segments between anchors ai and ai + 1, in the order they are pushed
pair_segments(a, b, ar, edge, rh) ==
    LET row_a == a[1]
        x_a == a[2]
        row_b == b[1]
        x_b == b[2]
        x_mid == (x_a + x_b) \div 2
        is_diagonal == x_a # x_b
        approach_len == 8
    IN  IF row_b # row_a + 1 THEN <<>>
        ELSE (IF row_a \in ar.up /\ is_diagonal
              THEN <<Segment(row_a, x_a, 0, x_a, approach_len, edge),
                     Segment(row_a, x_a, approach_len, x_mid, rh, edge)>>
              ELSE IF row_a \in ar.up
              THEN <<Segment(row_a, x_a, 0, x_mid, rh, edge)>>
              ELSE <<Segment(row_a, x_a, rh \div 2, x_mid, rh, edge)>>)
             \o
             (IF row_b \in ar.down /\ is_diagonal
              THEN <<Segment(row_b, x_mid, 0, x_b, rh - approach_len, edge),
                     Segment(row_b, x_b, rh - approach_len, x_b, rh, edge)>>
              ELSE IF row_b \in ar.down
              THEN <<Segment(row_b, x_mid, 0, x_b, rh, edge)>>
              ELSE <<Segment(row_b, x_mid, 0, x_b, rh \div 2, edge)>>)

RECURSIVE Concat(_)
Concat(seqs) == IF seqs = <<>> THEN <<>> ELSE Head(seqs) \o Concat(Tail(seqs))

\* all segments of one edge
edge_segments(edges, ei, n, node_columns, edge_column_at_row, m, lw, rh) ==
    LET an == anchors(edges, ei, n, node_columns, edge_column_at_row, m, lw)
        ar == arrow_rows(edges[ei], n, m)
    IN  Concat([ai \in 1..(Len(an) - 1) |->
                   pair_segments(an[ai], an[ai + 1], ar,
                                 [ci |-> edges[ei].color_index, ei |-> ei], rh)])

\* all arrows of one edge: the long-edge rule, then the visible-edge rule
edge_arrows(edges, ei, n, node_columns, edge_column_at_row, m, lw, rh) ==
    LET edge == edges[ei]
        ci == edge.color_index
        clamped_parent == Min(edge.parent_row, n)
        span == clamped_parent - edge.child_row
        Down(row) == IF row <= n
                     THEN <<[row |-> row, color_index |-> ci, ei |-> ei, is_down |-> TRUE, y |-> rh,
                             x |-> x_pos(column_or(edge_column_at_row[row], ei,
                                                   node_columns[edge.child_row]), lw)]>>
                     ELSE <<>>
        Up(row) == IF row <= n
                   THEN <<[row |-> row, color_index |-> ci, ei |-> ei, is_down |-> FALSE, y |-> 0,
                           x |-> x_pos(column_or(edge_column_at_row[row], ei,
                                                 node_columns[clamped_parent]), lw)]>>
                   ELSE <<>>
    IN  (IF span >= m.long_edge_size
         THEN Down(edge.child_row + m.visible_part_size)
              \o (IF clamped_parent - 1 >= m.visible_part_size
                  THEN Up(clamped_parent - m.visible_part_size) ELSE <<>>)
         ELSE <<>>)
        \o
        (IF span >= m.edge_with_arrow_size
         THEN Down(edge.child_row + 1)
              \o (IF clamped_parent - 1 >= 1 THEN Up(clamped_parent - 1) ELSE <<>>)
         ELSE <<>>)

\* output rows that come back newest-parent first: the input order reversed
graph_rows_reversed(commits, node_columns, node_colors, segments, arrows) ==
    [i \in 1..Len(commits) |->
        LET j == Len(commits) + 1 - i
        IN  [hash |-> commits[j].hash, parents |-> commits[j].parents, meta |-> commits[j].meta,
             node_column |-> node_columns[j], color_index |-> node_colors[j],
             segments |-> SelectSeq(segments, LAMBDA s : s.row = j),
             arrows |-> SelectSeq(arrows, LAMBDA a : a.row = j)]]

\* the result: one GraphRow per commit, with the segments and arrows pushed for its row
graph_rows(commits, node_columns, node_colors, segments, arrows) ==
    [i \in 1..Len(commits) |->
        [hash |-> commits[i].hash, parents |-> commits[i].parents, meta |-> commits[i].meta,
         node_column |-> node_columns[i], color_index |-> node_colors[i],
         segments |-> SelectSeq(segments, LAMBDA s : s.row = i),
         arrows |-> SelectSeq(arrows, LAMBDA a : a.row = i)]]

\* ------------------------------------------------ compute_graph_layout on small commit graphs
\* the hash of the commit in row i (0 parents or more, all distinct); UnknownHash is in no row
Hash(i) == 100 + i
UnknownHash == Hash(0)

\* a commit list from the rows of each commit's parents
Commits(parent_lists) ==
    [i \in 1..Len(parent_lists) |->
        [hash |-> Hash(i),
         parents |-> [k \in 1..Len(parent_lists[i]) |-> Hash(parent_lists[i][k])],
         meta |-> <<"meta", i>>]]

\* parent lists of at most MaxParents distinct commits below row i (topological order)
ParentLists(i, n) ==
    UNION {{o \in [1..k -> (i + 1)..n] : \A a, b \in 1..k : o[a] = o[b] => a = b} :
              k \in 0..MaxParents}

RECURSIVE Graphs(_, _)
Graphs(i, n) ==
    IF i > n THEN {<<>>}
    ELSE {<<pl>> \o rest : pl \in ParentLists(i, n), rest \in Graphs(i + 1, n)}

\* first_parent_chain from row r: r, its first parent, that one's first parent, ...
RECURSIVE first_parent_chain(_, _)
first_parent_chain(commits, r) ==
    IF r = 0 THEN {}
    ELSE {commits[r].hash} \cup
         first_parent_chain(commits, IF commits[r].parents = <<>> THEN 0
                                     ELSE hash_to_row(commits, commits[r].parents[1]))

\* named inputs: an octopus merge under a two-parent merge, a history with one edge
\* that spans more than 30 rows, a history cut off above its oldest parents
LongRows == mode(FALSE).long_edge_size + 2
ScenarioGraphs ==
    [octopus |-> <<<<2, 4>>, <<5, 3, 6>>, <<4>>, <<>>, <<>>, <<>>>>,
     long |-> [i \in 1..LongRows |-> IF i = 1 THEN <<2, LongRows>>
                                     ELSE IF i < LongRows THEN <<i + 1>> ELSE <<>>],
     cut |-> <<<<2, 0>>, <<0>>>>]

\* main_chain: empty, the first-parent chain of some commit, or the first commit alone
MainChains(commits) ==
    {{}} \cup {first_parent_chain(commits, r) : r \in 1..Len(commits)}
         \cup {{commits[r].hash} : r \in {1} \cap DOMAIN commits}

LayoutInput(name, parent_lists, main_chain, show_long_edges) ==
    [commits |-> Commits(parent_lists), main_chain |-> main_chain,
     show_long_edges |-> show_long_edges, lane_width |-> 20, row_height |-> 24,
     name |-> name]

LayoutInputs ==
    UNION {{LayoutInput("small", g, mc, FALSE) : mc \in MainChains(Commits(g))} :
              g \in UNION {Graphs(1, n) : n \in 0..MaxCommits}}
    \cup
    UNION {{LayoutInput(name, ScenarioGraphs[name], mc, long) :
               mc \in {{}, first_parent_chain(Commits(ScenarioGraphs[name]), 1)},
               long \in BOOLEAN} :
              name \in DOMAIN ScenarioGraphs}

\* the call: the early return for no commits, or phase 1, the colours and the edge list
LayoutCall ==
    /\ gst.pc = "idle"
    /\ gin.name # "none"
    /\ IF gin.commits = <<>>
       THEN gst' = [gst EXCEPT !.pc = "done", !.result = <<>>]
       ELSE LET n == Len(gin.commits)
                layout_index == assign_layout_indices(gin.commits)
                node_colors == color_loop(gin.commits, gin.main_chain, layout_index,
                                          <<>>, 1, <<>>)
            IN  gst' = [gst EXCEPT !.pc = "sweep",
                                   !.row = 1,
                                   !.layout_index = layout_index,
                                   !.node_colors = node_colors,
                                   !.all_edges = all_edges(gin.commits, layout_index,
                                                           node_colors, 1),
                                   !.node_columns = [i \in 1..n |-> 0],
                                   !.edge_column_at_row = [i \in 1..n |-> {}]]
    /\ UNCHANGED gin
    /\ UNCHANGED notGraphVars

\* active_edge_indices once the edges that start at this row are inserted
ActiveNow == gst.active \cup edges_by_start(gst.all_edges, Len(gin.commits), gst.row)

\* one round of `for row in 0..n`; order is the order in which the HashSet of active
\* edges is iterated this time (RandomState: any order)
SweepRow ==
    /\ gst.pc = "sweep"
    /\ LET n == Len(gin.commits)
           row == gst.row
           active == ActiveNow
       IN  \E order \in Orders(active) :
              LET cols == columns_of(sort_by(row_elements(gst.all_edges, gst.layout_index,
                                                          n, row, order,
                                                          mode(gin.show_long_edges))))
              IN  gst' = [gst EXCEPT
                            !.node_columns[row] = cols.node,
                            !.edge_column_at_row[row] = cols.edges,
                            !.active = {ei \in active :
                                           row < last_intermediate(gst.all_edges[ei], n)},
                            !.row = row + 1,
                            !.pc = IF row = n THEN "emit" ELSE "sweep"]
    /\ UNCHANGED gin
    /\ UNCHANGED notGraphVars

\* phase 3 and the output loop
LayoutReturns ==
    /\ gst.pc = "emit"
    /\ LET n == Len(gin.commits)
           m == mode(gin.show_long_edges)
           segments == Concat([ei \in 1..Len(gst.all_edges) |->
                                  edge_segments(gst.all_edges, ei, n, gst.node_columns,
                                                gst.edge_column_at_row, m,
                                                gin.lane_width, gin.row_height)])
           arrows == Concat([ei \in 1..Len(gst.all_edges) |->
                                edge_arrows(gst.all_edges, ei, n, gst.node_columns,
                                            gst.edge_column_at_row, m,
                                            gin.lane_width, gin.row_height)])
       IN  gst' = [gst EXCEPT !.pc = "done",
                              !.result = graph_rows(gin.commits, gst.node_columns,
                                                    gst.node_colors, segments, arrows)]
    /\ UNCHANGED gin
    /\ UNCHANGED notGraphVars

GraphInit ==
    /\ gin \in LayoutInputs
    /\ gst = NoLayout
    /\ pty = NoPty
    /\ det = NoDetect
    /\ SessionAtRest(None)
    /\ ExecIdle
    /\ BoundaryIdle
    /\ MutexIdle
    /\ ForwardIdle
    /\ EmuIdle
    /\ CallIdle

GraphNext ==
    \/ LayoutCall
    \/ SweepRow
    \/ LayoutReturns

SpecGraph == GraphInit /\ [][GraphNext]_vars

\* ------------------------------------------------ ssh/service_detector.rs: detect_all
\* the four detectors that detect_all joins, in the order their results are pushed
Services == <<"mysql", "redis", "postgresql", "docker">>
ServiceNames == Range(Services)

\* what an exec_command comes back with: Err, or Ok((code, output)); of the output only
\* what the detectors look for is kept
Outputs == {"", "active", "PONG"}
ExecErr == [ok |-> FALSE, code |-> -1, out |-> ""]
ExecResults == {ExecErr} \cup [ok : {TRUE}, code : {0, 1}, out : Outputs]

\* .await.unwrap_or((-1, String::new()))
unwrap_or_failed(res) == IF res.ok THEN res ELSE ExecErr

\* `which` answered without looking at its exit code
which_found_any_exit(res) == res.ok

\* .await.ok()? and `if code != 0 { return None; }`
which_found(res) == res.ok /\ res.code = 0

\* the detectors that probe the service itself before asking systemctl and pgrep
has_probe(s) == s \in {"redis", "docker"}

\* redis-cli ping answered PONG; docker info succeeded
probe_running(s, res) ==
    LET r == unwrap_or_failed(res)
    IN  IF s = "redis" THEN r.code = 0 /\ r.out = "PONG" ELSE r.code = 0

\* the number of fallback commands handed to check_service_status
status_commands(s) == IF s = "docker" THEN 1 ELSE 2

port_of(s) ==
    CASE s = "mysql" -> 3306
      [] s = "redis" -> 6379
      [] s = "postgresql" -> 5432
      [] s = "docker" -> 0

\* a detector that has not been polled; ran counts the commands it has had executed and
\* which records the answer to its first one
NotPolled ==
    [pc |-> "which", ret |-> "none", which |-> [ok |-> FALSE, code |-> 0], ran |-> 0,
     version_out |-> "", status |-> "none", k |-> 0]

DetectStart == [pc |-> "idle", svc |-> [s \in ServiceNames |-> NotPolled], services |-> <<>>]

\* detect_all is called: tokio::join! starts the four detectors
DetectAll ==
    /\ det.pc = "idle"
    /\ det' = [det EXCEPT !.pc = "joined"]
    /\ UNCHANGED notDetectVars

Finished(d, status) == [d EXCEPT !.pc = "done", !.ret = "Some", !.status = status]

\* the `which` command of detector s completes
DetectWhich(s, res) ==
    /\ det.pc = "joined"
    /\ det.svc[s].pc = "which"
    /\ LET d == [det.svc[s] EXCEPT !.which = [ok |-> res.ok, code |-> res.code],
                                   !.ran = @ + 1]
       IN  det' = [det EXCEPT !.svc[s] =
                      IF which_found(res) THEN [d EXCEPT !.pc = "version"]
                      ELSE [d EXCEPT !.pc = "done", !.ret = "None"]]
    /\ UNCHANGED notDetectVars

\* the --version command of detector s completes
DetectVersion(s, res) ==
    /\ det.pc = "joined"
    /\ det.svc[s].pc = "version"
    /\ det' = [det EXCEPT !.svc[s] =
                  [@ EXCEPT !.pc = IF has_probe(s) THEN "probe" ELSE "status",
                            !.version_out = unwrap_or_failed(res).out,
                            !.k = 1,
                            !.ran = @ + 1]]
    /\ UNCHANGED notDetectVars

\* redis-cli ping, or docker info, completes
DetectProbe(s, res) ==
    /\ det.pc = "joined"
    /\ det.svc[s].pc = "probe"
    /\ LET d == [det.svc[s] EXCEPT !.ran = @ + 1]
       IN  det' = [det EXCEPT !.svc[s] =
                      IF probe_running(s, res) THEN Finished(d, "Running")
                      ELSE [d EXCEPT !.pc = "status"]]
    /\ UNCHANGED notDetectVars

\* check_service_status: fallback command k of detector s completes
CheckServiceStatus(s, res) ==
    /\ det.pc = "joined"
    /\ det.svc[s].pc = "status"
    /\ LET d == [det.svc[s] EXCEPT !.ran = @ + 1]
       IN  det' = [det EXCEPT !.svc[s] =
                      IF res.ok /\ res.code = 0 /\ res.out = "active"
                      THEN Finished(d, "Running")
                      ELSE IF d.k = status_commands(s) THEN Finished(d, "Stopped")
                      ELSE [d EXCEPT !.k = @ + 1]]
    /\ UNCHANGED notDetectVars

DetectedService(s, d) ==
    [name |-> s, version_out |-> d.version_out, status |-> d.status, port |-> port_of(s)]

\* the join is complete: the Some results are pushed in the fixed order
DetectReturns ==
    /\ det.pc = "joined"
    /\ \A s \in ServiceNames : det.svc[s].pc = "done"
    /\ LET found == SelectSeq(Services, LAMBDA s : det.svc[s].ret = "Some")
       IN  det' = [det EXCEPT !.pc = "returned",
                              !.services = [i \in 1..Len(found) |->
                                               DetectedService(found[i], det.svc[found[i]])]]
    /\ UNCHANGED notDetectVars

DetectInit ==
    /\ det = DetectStart
    /\ pty = NoPty
    /\ gin = NoInput
    /\ gst = NoLayout
    /\ SessionAtRest(None)
    /\ ExecIdle
    /\ BoundaryIdle
    /\ MutexIdle
    /\ ForwardIdle
    /\ EmuIdle
    /\ CallIdle

DetectNext ==
    \/ DetectAll
    \/ \E s \in ServiceNames : \E res \in ExecResults : DetectWhich(s, res)
    \/ \E s \in ServiceNames : \E res \in ExecResults : DetectVersion(s, res)
    \/ \E s \in ServiceNames : \E res \in ExecResults : DetectProbe(s, res)
    \/ \E s \in ServiceNames : \E res \in ExecResults : CheckServiceStatus(s, res)
    \/ DetectReturns

SpecDetect == DetectInit /\ [][DetectNext]_vars

\* ------------------------------------------------ ffi.rs: the arguments of the boundary calls
\* what a `*const c_char` argument may be: null, a C string that is not UTF-8, a UTF-8 string
Ptrs == {"null", "bad_utf8", "valid"}
Handles == {"null", "live"}
\* auth_type: 0 = password, 1 = key file, anything else
AuthTypes == {0, 1, 2}

\* CStr::from_ptr(p).to_str().unwrap_or(default), for a pointer that is not null
to_str_or(p, default) == IF p = "valid" THEN "given" ELSE default

FfiCall(op, args, did, with, ret) ==
    /\ ffi' = [op |-> op, args |-> args, did |-> did, with |-> with, ret |-> ret]
    /\ UNCHANGED notCallVars
    /\ UNCHANGED <<pv, cr, rd>>

\* pier_terminal_create: a null shell and a shell that is not UTF-8 both mean /bin/zsh
TerminalCreate(shell, spawned) ==
    /\ shell \in Ptrs
    /\ LET shell_str == IF shell = "null" THEN "/bin/zsh" ELSE to_str_or(shell, "/bin/zsh")
       IN  FfiCall("terminal_create", <<shell>>, {"spawn"}, <<shell_str>>,
                   IF spawned THEN "handle" ELSE "null")

\* pier_terminal_create_with_args
TerminalCreateWithArgs(program, spawned) ==
    IF program = "null"
    THEN FfiCall("terminal_create_with_args", <<program>>, {}, <<>>, "null")
    ELSE FfiCall("terminal_create_with_args", <<program>>, {"spawn"},
                 <<to_str_or(program, "/bin/zsh")>>, IF spawned THEN "handle" ELSE "null")

\* pier_ssh_connect
SshConnect(host, username, auth_type, credential, established) ==
    LET args == <<host, username, credential, auth_type>>
    IN  IF host = "null" \/ username = "null" \/ credential = "null"
        THEN FfiCall("ssh_connect", args, {}, <<>>, "null")
        ELSE IF auth_type \notin {0, 1}
        THEN FfiCall("ssh_connect", args, {}, <<>>, "null")
        ELSE FfiCall("ssh_connect", args, {"connect"},
                     <<to_str_or(host, ""), to_str_or(username, ""),
                       to_str_or(credential, "")>>,
                     IF established THEN "handle" ELSE "null")

\* pier_ssh_exec: every path past the null test returns a JSON string
SshExec(h, command) ==
    IF h = "null" \/ command = "null"
    THEN FfiCall("ssh_exec", <<h, command>>, {}, <<>>, "null")
    ELSE FfiCall("ssh_exec", <<h, command>>, {"exec"}, <<to_str_or(command, "")>>,
                 "string")

\* pier_ssh_forward_port
SshForwardPort(h, remote_host, started_ok) ==
    IF h = "null" \/ remote_host = "null"
    THEN FfiCall("ssh_forward_port", <<h, remote_host>>, {}, <<>>, "-1")
    ELSE FfiCall("ssh_forward_port", <<h, remote_host>>, {"forward"},
                 <<to_str_or(remote_host, "")>>, IF started_ok THEN "0" ELSE "-1")

\* pier_search_files
SearchFiles(root, pattern) ==
    IF root = "null" \/ pattern = "null"
    THEN FfiCall("search_files", <<root, pattern>>, {}, <<>>, "null")
    ELSE FfiCall("search_files", <<root, pattern>>, {"search"},
                 <<to_str_or(root, ""), to_str_or(pattern, "")>>, "string")

\* pier_list_directory
ListDirectory(path, listed) ==
    IF path = "null"
    THEN FfiCall("list_directory", <<path>>, {}, <<>>, "null")
    ELSE FfiCall("list_directory", <<path>>, {"list"}, <<to_str_or(path, "")>>,
                 IF listed THEN "string" ELSE "null")

\* pier_terminal_write and pier_terminal_read: a handle and a buffer pointer
BufferOps == {"terminal_write", "terminal_read"}
BufferPtrs == {"null", "valid"}
TerminalIo(op, h, buffer, done) ==
    IF h = "null" \/ buffer = "null"
    THEN FfiCall(op, <<h, buffer>>, {}, <<>>, "-1")
    ELSE FfiCall(op, <<h, buffer>>, {"io"}, <<>>, IF done THEN "0" ELSE "-1")

\* the calls whose only pointer is the handle, and what they return for a null handle
HandleOps ==
    [terminal_resize |-> "-1", terminal_fd |-> "-1", ssh_disconnect |-> "-1",
     ssh_is_connected |-> "-1", ssh_stop_forward |-> "-1",
     ssh_detect_services |-> "null", ssh_list_forwards |-> "null"]
HandleCall(op, h, done) ==
    IF h = "null"
    THEN FfiCall(op, <<h>>, {}, <<>>, HandleOps[op])
    ELSE FfiCall(op, <<h>>, {"use"}, <<>>,
                 IF done THEN (IF HandleOps[op] = "null" THEN "string" ELSE "0")
                 ELSE HandleOps[op])

FfiInit ==
    /\ CallIdle
    /\ pty = NoPty
    /\ gin = NoInput
    /\ gst = NoLayout
    /\ det = NoDetect
    /\ SessionAtRest(None)
    /\ ExecIdle
    /\ BoundaryIdle
    /\ MutexIdle
    /\ ForwardIdle
    /\ EmuIdle

FfiNext ==
    \/ \E shell \in Ptrs, spawned \in BOOLEAN : TerminalCreate(shell, spawned)
    \/ \E program \in Ptrs, spawned \in BOOLEAN : TerminalCreateWithArgs(program, spawned)
    \/ \E host \in Ptrs, username \in Ptrs, auth_type \in AuthTypes, credential \in Ptrs,
          established \in BOOLEAN : SshConnect(host, username, auth_type, credential, established)
    \/ \E h \in Handles, command \in Ptrs : SshExec(h, command)
    \/ \E h \in Handles, remote_host \in Ptrs, started_ok \in BOOLEAN :
          SshForwardPort(h, remote_host, started_ok)
    \/ \E root \in Ptrs, pattern \in Ptrs : SearchFiles(root, pattern)
    \/ \E path \in Ptrs, listed \in BOOLEAN : ListDirectory(path, listed)
    \/ \E op \in BufferOps, h \in Handles, buffer \in BufferPtrs, done \in BOOLEAN :
          TerminalIo(op, h, buffer, done)
    \/ \E op \in DOMAIN HandleOps, h \in Handles, done \in BOOLEAN :
          HandleCall(op, h, done)

SpecFfi == FfiInit /\ [][FfiNext]_vars

\* ------------------------------------------------ ssh/service_detector.rs: parse_version
\* longest enumerated output, in characters
MaxOut == 4
\* the characters of the enumerated outputs: a digit, a letter, the three marks the
\* function looks at, a blank and a line feed
OutChars == {"1", "a", ".", ",", ";", " ", "LF"}
is_whitespace(c) == c \in {" ", "LF"}

\* str::split_whitespace: the maximal runs of characters that are not white space
RECURSIVE split_whitespace(_)
split_whitespace(s) ==
    IF s = <<>> THEN <<>>
    ELSE IF is_whitespace(Head(s)) THEN split_whitespace(Tail(s))
    ELSE LET stop == IF \E i \in DOMAIN s : is_whitespace(s[i])
                     THEN CHOOSE i \in DOMAIN s :
                              /\ is_whitespace(s[i])
                              /\ \A j \in 1..(i - 1) : ~is_whitespace(s[j])
                     ELSE Len(s) + 1
         IN  <<SubSeq(s, 1, stop - 1)>> \o split_whitespace(SubSeq(s, stop, Len(s)))

\* str::trim_end_matches(c): every trailing c goes
RECURSIVE trim_end_matches(_, _)
trim_end_matches(s, c) ==
    IF s # <<>> /\ s[Len(s)] = c THEN trim_end_matches(SubSeq(s, 1, Len(s) - 1), c) ELSE s

\* word.trim_end_matches(',').trim_end_matches(';')
trimmed_of(word) == trim_end_matches(trim_end_matches(word, ","), ";")

version_like(w) == w # <<>> /\ IsDigit(Head(w)) /\ \E i \in DOMAIN w : w[i] = "."

UnknownVersion == <<"u", "n", "k", "n", "o", "w", "n">>

\* output.lines().next().unwrap_or("unknown")
first_line_or_unknown(s) ==
    IF s = <<>> THEN UnknownVersion
    ELSE IF \E i \in DOMAIN s : s[i] = "LF"
    THEN SubSeq(s, 1, (CHOOSE i \in DOMAIN s : s[i] = "LF" /\ \A j \in 1..(i - 1) : s[j] # "LF") - 1)
    ELSE s

parse_version(output) ==
    LET words == split_whitespace(output)
        hits == {k \in DOMAIN words : version_like(trimmed_of(words[k]))}
    IN  IF hits # {}
        THEN trimmed_of(words[CHOOSE k \in hits : \A l \in hits : k <= l])
        ELSE first_line_or_unknown(output)

\* the outputs of the unit tests, and one without a version
VersionExamples ==
    [mysql |->
        <<"m", "y", "s", "q", "l", " ", " ", "V", "e", "r", " ", "8", ".", "0", ".",
        "3", "5", " ", "D", "i", "s", "t", "r", "i", "b", " ", "8", ".", "0", ".",
        "3", "5", ",", " ", "f", "o", "r", " ", "L", "i", "n", "u", "x", " ", "o",
        "n", " ", "x", "8", "6", "_", "6", "4">>,
     redis |->
        <<"r", "e", "d", "i", "s", "-", "c", "l", "i", " ", "7", ".", "0", ".", "1",
        "1">>,
     docker |->
        <<"D", "o", "c", "k", "e", "r", " ", "v", "e", "r", "s", "i", "o", "n", " ",
        "2", "4", ".", "0", ".", "5", ",", " ", "b", "u", "i", "l", "d", " ", "c",
        "e", "d", "0", "9", "9", "6">>,
     psql |->
        <<"p", "s", "q", "l", " ", "(", "P", "o", "s", "t", "g", "r", "e", "S", "Q",
        "L", ")", " ", "1", "5", ".", "4">>,
     none |->
        <<"n", "o", "t", " ", "f", "o", "u", "n", "d", "LF", "a", "t", " ", "a",
        "l", "l">>]

RECURSIVE Strings(_)
Strings(n) ==
    IF n = 0 THEN {<<>>}
    ELSE Strings(n - 1) \cup {Append(s, c) : s \in {q \in Strings(n - 1) : Len(q) = n - 1},
                                             c \in OutChars}

VersionOutputs == Strings(MaxOut) \cup Range(VersionExamples)

\* parse_version is called and returns
ParseVersion ==
    /\ pv.pc = "given"
    /\ pv' = [pv EXCEPT !.pc = "returned", !.ret = parse_version(pv.output)]
    /\ UNCHANGED notCallVars
    /\ UNCHANGED <<ffi, cr, rd>>

ParseInit ==
    /\ pv \in {[pc |-> "given", output |-> o, ret |-> <<>>] : o \in VersionOutputs}
    /\ ffi = NoFfi
    /\ cr = NoCrypto
    /\ rd = NoRead
    /\ pty = NoPty
    /\ gin = NoInput
    /\ gst = NoLayout
    /\ det = NoDetect
    /\ SessionAtRest(None)
    /\ ExecIdle
    /\ BoundaryIdle
    /\ MutexIdle
    /\ ForwardIdle
    /\ EmuIdle

ParseNext == ParseVersion

SpecParse == ParseInit /\ [][ParseNext]_vars

\* ------------------------------------------------ crypto/mod.rs: encrypt, decrypt
\* longest enumerated plaintext, in bytes
MaxPlain == 2
KEY_LEN == 32
NONCE_LEN == 12
\* the length of the tag AES_256_GCM appends
TAG_LEN == 16

\* byte values of the model, and keys made of one repeated byte (0x42 as in the tests)
CryptoBytes == {0, 66, 255}
CryptoKeys == {[i \in 1..KEY_LEN |-> b] : b \in {66, 7}}
\* nonces SystemRandom may fill in
Nonces == {[i \in 1..NONCE_LEN |-> b] : b \in {0, 255}}

RECURSIVE ByteStrings(_)
ByteStrings(n) ==
    IF n = 0 THEN {<<>>}
    ELSE ByteStrings(n - 1) \cup
         {Append(s, b) : s \in {q \in ByteStrings(n - 1) : Len(q) = n - 1}, b \in CryptoBytes}

\* AES-256-GCM as far as its callers depend on it: a keystream byte for each position that
\* depends on key and nonce, and a tag over key, nonce and sealed data
keystream(key, nonce, i) == (key[1] * 3 + nonce[1] + i) % 256
RECURSIVE weighted_sum(_)
weighted_sum(data) ==
    IF data = <<>> THEN 0 ELSE (Len(data) + 1) * (data[Len(data)] + 1)
                                + weighted_sum(SubSeq(data, 1, Len(data) - 1))
gcm_tag(key, nonce, data) ==
    [i \in 1..TAG_LEN |-> (key[1] * 5 + nonce[1] * 3 + weighted_sum(data) + i) % 256]

\* LessSafeKey::seal_in_place_append_tag with empty additional data
seal_in_place_append_tag(key, nonce, in_out) ==
    LET data == [i \in DOMAIN in_out |-> (in_out[i] + keystream(key, nonce, i)) % 256]
    IN  data \o gcm_tag(key, nonce, data)

\* LessSafeKey::open_in_place: the plaintext, or an error when the tag does not verify
open_in_place(key, nonce, in_out) ==
    IF Len(in_out) < TAG_LEN THEN [ok |-> FALSE, data |-> <<>>]
    ELSE LET data == SubSeq(in_out, 1, Len(in_out) - TAG_LEN)
             tag == SubSeq(in_out, Len(in_out) - TAG_LEN + 1, Len(in_out))
         IN  IF tag # gcm_tag(key, nonce, data) THEN [ok |-> FALSE, data |-> <<>>]
             ELSE [ok |-> TRUE,
                   data |-> [i \in DOMAIN data |->
                                (data[i] + 256 - keystream(key, nonce, i)) % 256]]

Failed(msg) == [ok |-> FALSE, err |-> msg, data |-> <<>>]
Succeeded(data) == [ok |-> TRUE, err |-> "", data |-> data]

\* an encrypt that returns the sealed data without the nonce in front
encrypt_without_nonce(key, plaintext, rng_ok, nonce_bytes) ==
    IF ~rng_ok THEN Failed("RNG failed")
    ELSE Succeeded(seal_in_place_append_tag(key, nonce_bytes, plaintext))

\* encrypt; rng_ok and nonce_bytes are what SystemRandom::fill does
encrypt(key, plaintext, rng_ok, nonce_bytes) ==
    IF ~rng_ok THEN Failed("RNG failed")
    ELSE Succeeded(nonce_bytes \o seal_in_place_append_tag(key, nonce_bytes, plaintext))

\* a decrypt that hands every input to the cipher
decrypt_any_length(key, ciphertext) ==
    LET nonce_bytes == SubSeq(ciphertext, 1, Min(NONCE_LEN, Len(ciphertext)))
        encrypted == IF Len(ciphertext) > NONCE_LEN
                     THEN SubSeq(ciphertext, NONCE_LEN + 1, Len(ciphertext)) ELSE <<>>
        opened == open_in_place(key, nonce_bytes, encrypted)
    IN  IF opened.ok THEN Succeeded(opened.data) ELSE Failed("Decryption failed")

decrypt(key, ciphertext) ==
    IF Len(ciphertext) < NONCE_LEN THEN Failed("Ciphertext too short")
    ELSE LET nonce_bytes == SubSeq(ciphertext, 1, NONCE_LEN)
             encrypted == SubSeq(ciphertext, NONCE_LEN + 1, Len(ciphertext))
             opened == open_in_place(key, nonce_bytes, encrypted)
         IN  IF opened.ok THEN Succeeded(opened.data) ELSE Failed("Decryption failed")

NotCalled == [ok |-> FALSE, err |-> "not called", data |-> <<>>]

\* encrypt(key, plaintext) is called
Encrypt(rng_ok, nonce_bytes) ==
    /\ cr.pc = "given"
    /\ cr' = [cr EXCEPT !.pc = "encrypted",
                        !.nonce = nonce_bytes,
                        !.enc = encrypt(cr.key, cr.plaintext, rng_ok, nonce_bytes)]
    /\ UNCHANGED notCallVars
    /\ UNCHANGED <<ffi, pv, rd>>

\* decrypt(key, c) on what encrypt returned
DecryptBack ==
    /\ cr.pc = "encrypted"
    /\ cr.enc.ok
    /\ cr' = [cr EXCEPT !.pc = "decrypted", !.dkey = cr.key, !.input = cr.enc.data,
                        !.dec = decrypt(cr.key, cr.enc.data)]
    /\ UNCHANGED notCallVars
    /\ UNCHANGED <<ffi, pv, rd>>

\* the ciphertexts a caller may hand to decrypt besides an untouched result of encrypt:
\* a beginning of one, one with a byte changed, a run of one byte value
OtherInputs ==
    (IF cr.pc = "encrypted" /\ cr.enc.ok
     THEN {SubSeq(cr.enc.data, 1, n) : n \in 0..Len(cr.enc.data)} \cup
          {[cr.enc.data EXCEPT ![i] = 1] : i \in {1, NONCE_LEN + 1} \cap DOMAIN cr.enc.data}
     ELSE {})
    \cup {[i \in 1..n |-> b] : n \in 0..(NONCE_LEN + TAG_LEN), b \in {0, 255}}

\* decrypt(key, c) with any key on any other input
DecryptOther ==
    /\ cr.pc \in {"given", "encrypted"}
    /\ \E k \in CryptoKeys, c \in OtherInputs :
          cr' = [cr EXCEPT !.pc = "decrypted", !.dkey = k, !.input = c, !.dec = decrypt(k, c)]
    /\ UNCHANGED notCallVars
    /\ UNCHANGED <<ffi, pv, rd>>

CryptoInit ==
    /\ cr \in {[pc |-> "given", key |-> k, plaintext |-> p, nonce |-> <<>>, enc |-> NotCalled,
                dkey |-> <<>>, input |-> <<>>, dec |-> NotCalled] :
                  k \in CryptoKeys, p \in ByteStrings(MaxPlain)}
    /\ ffi = NoFfi
    /\ pv = NoParse
    /\ rd = NoRead
    /\ pty = NoPty
    /\ gin = NoInput
    /\ gst = NoLayout
    /\ det = NoDetect
    /\ SessionAtRest(None)
    /\ ExecIdle
    /\ BoundaryIdle
    /\ MutexIdle
    /\ ForwardIdle
    /\ EmuIdle

CryptoNext ==
    \/ \E rng_ok \in BOOLEAN, nonce_bytes \in Nonces : Encrypt(rng_ok, nonce_bytes)
    \/ DecryptBack
    \/ DecryptOther

SpecCrypto == CryptoInit /\ [][CryptoNext]_vars

\* ------------------------------------------------ terminal_read
\* PtyProcess::read: `let mut buf = vec![0u8; 65536];`
PTY_READ_BUF == 65536
\* bytes the shell writes to the slave side
MaxStream == 3
\* the caller's buffer_len
MaxBufferLen == 2
StreamBytes == {97, 98}
ReadErrnos == {"EAGAIN", "EIO"}

\* what libc::read(fd, buf, buf.len()) can return on the non-blocking master holding
\* `master`: n > 0 bytes of it, 0 at end of file, or -1 with an errno
LibcReads(master) ==
    IF Len(master) > 0
    THEN {[n |-> n, errno |-> "none"] : n \in 1..Min(Len(master), PTY_READ_BUF)}
    ELSE {[n |-> 0, errno |-> "none"]} \cup {[n |-> -1, errno |-> e] : e \in ReadErrnos}

LibcResults ==
    {[n |-> n, errno |-> "none"] : n \in 0..MaxStream}
        \cup {[n |-> -1, errno |-> e] : e \in ReadErrnos}

\* PtyProcess::read (TerminalSession::read forwards to it): the bytes read, an empty
\* vector at end of file or on WouldBlock, the error otherwise
pty_read(master, r) ==
    IF r.n > 0 THEN Succeeded(SubSeq(master, 1, r.n))
    ELSE IF r.n = 0 THEN Succeeded(<<>>)
    ELSE IF r.errno = "EAGAIN" THEN Succeeded(<<>>)
    ELSE Failed(r.errno)

\* pier_terminal_read on a live handle and buffer: copy_len = data.len().min(buffer_len)
\* bytes are copied and copy_len is returned; -1 on a read error
pier_terminal_read(res, buffer_len) ==
    IF res.ok
    THEN LET copy_len == Min(Len(res.data), buffer_len)
         IN [buffer |-> SubSeq(res.data, 1, copy_len), ret |-> copy_len]
    ELSE [buffer |-> <<>>, ret |-> -1]

\* the shell writes one byte; the kernel queues it on the master
ShellOutput(b) ==
    /\ rd.pc = "open"
    /\ Len(rd.written) < MaxStream
    /\ rd' = [rd EXCEPT !.master = Append(@, b), !.written = Append(@, b)]
    /\ UNCHANGED <<notCallVars, ffi, pv, cr>>

\* one pier_terminal_read(handle, buffer, buffer_len) call
TerminalRead(buffer_len, r) ==
    /\ rd.pc = "open"
    /\ r \in LibcReads(rd.master)
    /\ LET res == pty_read(rd.master, r)
           out == pier_terminal_read(res, buffer_len)
           n   == IF r.n > 0 THEN r.n ELSE 0
       IN rd' = [rd EXCEPT !.master = SubSeq(@, n + 1, Len(@)),
                           !.taken  = @ \o SubSeq(rd.master, 1, n),
                           !.copied = @ \o out.buffer,
                           !.calls  = Min(@ + 1, 2),
                           !.last   = [buffer_len |-> buffer_len, read |-> r.n,
                                       ret |-> out.ret]]
    /\ UNCHANGED <<notCallVars, ffi, pv, cr>>

ReadInit ==
    /\ rd = [pc |-> "open", master |-> <<>>, written |-> <<>>, taken |-> <<>>,
             copied |-> <<>>, calls |-> 0,
             last |-> [buffer_len |-> 0, read |-> 0, ret |-> 0]]
    /\ ffi = NoFfi
    /\ pv = NoParse
    /\ cr = NoCrypto
    /\ pty = NoPty
    /\ gin = NoInput
    /\ gst = NoLayout
    /\ det = NoDetect
    /\ SessionAtRest(None)
    /\ ExecIdle
    /\ BoundaryIdle
    /\ MutexIdle
    /\ ForwardIdle
    /\ EmuIdle

ReadNext ==
    \/ \E b \in StreamBytes : ShellOutput(b)
    \/ \E buffer_len \in 0..MaxBufferLen, r \in LibcResults : TerminalRead(buffer_len, r)

SpecRead == ReadInit /\ [][ReadNext]_vars

\* ------------------------------------------------ claims on SpecConnect
HostPortOf(s) == config[s].hostport
\* the step in which session s's handshake accepted the presented key (then hk'[s].key)
KeyAccepted(s) == pc[s] = "handshake" /\ pc'[s] = "accepted"
\* the step in which session s's handshake refused the presented key (then result'[s].key)
KeyRefused(s) == pc[s] = "handshake" /\ result'[s].how = "HostKey"

C4_TransportIffConnected ==
    \A s \in Sessions :
        /\ is_connected(s) <=> connected[s]
        /\ (pc[s] = "idle" /\ result[s].op = "disconnect") => ~is_connected(s)
        /\ (pc[s] = "idle" /\ result[s].op = "connect") =>
               (result[s].ret = "Ok" => is_connected(s))

C4_Witness ==
    \E s \in Sessions :
        /\ result[s] = DisconnectOk("Timeout")
        /\ ~is_connected(s)
        /\ pc[s] = "idle"

\* ------------------------------------------------ claims on SpecExec
\* exec_command's message loop has ended and exec_command has returned
LoopEnded == x_pc = "returned" /\ why \in {"message", "overall", "msg_timeout"}
BothReceived == rx.got_status /\ rx.eof
ChannelClosed == rx.last \in {"Close", "End"}
OverallDeadlineReached == now >= deadline
\* a whole per-message wait (10 s) has passed since the last message, or since the loop began
MsgDeadlineElapsed == now - rx.at >= Ticks(MSG_TIMEOUT_SECS)
\* the exit code exec_command owes its caller
ExpectedExitCode == IF rx.got_status THEN ToI32(rx.status) ELSE -1

\* C5 as claimed: the loop ends only when both ExitStatus and Eof were received, or
\* Close was received or the channel ended, or the 60 s overall deadline was reached.
C5_EndsOnlyWhenComplete ==
    LoopEnded => (BothReceived \/ ChannelClosed \/ OverallDeadlineReached)

\* C5 amended: the loop ends only when both ExitStatus and Eof were received, or Close
\* was received or the channel ended, or the overall deadline was reached, or no
\* message arrived within the per-message deadline (10 s).
C5_EndsOnlyWhenCompleteOrSilent ==
    LoopEnded =>
        (BothReceived \/ ChannelClosed \/ OverallDeadlineReached \/ MsgDeadlineElapsed)

C5_Witness ==
    /\ LoopEnded
    /\ why = "msg_timeout"
    /\ MsgDeadlineElapsed
    /\ ~OverallDeadlineReached
    /\ ~BothReceived /\ ~ChannelClosed

\* C6: as soon as both an ExitStatus and an Eof have been received, in either order and
\* whatever the status value, the loop has ended: it is never waiting for a further message.
C6_EndsOnStatusAndEof ==
    x_pc = "loop" => ~BothReceived

\* C7: exec_command returns exit_code -1 if no ExitStatus arrived before its loop ended,
\* and otherwise the (latest) received status, as i32.
C7_ExitCode ==
    LoopEnded => json.exit_code = ExpectedExitCode

C7_Witness ==
    /\ LoopEnded
    /\ rx.got_status /\ rx.status = U32(0, 1) /\ rx.eof
    /\ json.exit_code = 1

\* C8 as claimed: whenever the call ends by a timeout (boundary, overall, per-message)
\* the JSON is exit_code -1 with the synthetic timeout text.
C8_EveryTimeoutSynthetic ==
    (x_pc = "returned" /\ why \in {"boundary", "overall", "msg_timeout"}) =>
        json = [exit_code |-> -1, stdout |-> TimeoutText]

\* C8 amended: when the 60 s boundary timeout ends the call the JSON is exit_code -1
\* with the synthetic timeout text; when exec_command's own overall or per-message
\* deadline ends its loop, the JSON carries the exit status received so far (-1 if none)
\* and the trimmed output received so far.
C8_TimeoutJson ==
    x_pc = "returned" =>
        /\ why = "boundary" => json = [exit_code |-> -1, stdout |-> TimeoutText]
        /\ why \in {"overall", "msg_timeout"} =>
              json = [exit_code |-> ExpectedExitCode, stdout |-> Trim(rx.data)]

C8_Witness ==
    /\ x_pc = "returned"
    /\ why = "boundary"
    /\ rx.data # <<>>
    /\ json.stdout = TimeoutText

\* ------------------------------------------------ claims on SpecBoundary
\* C9: every SSH boundary call returns after a bounded wait even if the server stops
\* responding: a host thread blocked in a call eventually has the call returned.
C9_EveryCallReturns ==
    Blocked ~> (b_phase = "returned")

\* ------------------------------------------------ claims on SpecMutex
\* C10: the mutex serializes only channel opens: a task waiting for the mutex waits at
\* most while another task sets its channel up (open, exec request), never while
\* another task's command is running in its message loop.
C10_WaitsOnlyForOpens ==
    \A t \in Tasks :
        (m_pc[t] = "lock" /\ m_owner # NoTask) => m_pc[m_owner] \in {"open", "exec"}

\* ------------------------------------------------ claims on SpecForward
\* C11: active_forwards() is exactly the set of ports whose latest successful start has
\* not been followed by a stop of that port or by stop_all_forwards.
C11_ActiveForwardsExact ==
    active_forwards = started

\* port 1 was started and stopped, port 2 started and not stopped
C11_Witness ==
    /\ loops[1] # "none"
    /\ active_forwards = {2}
    /\ f_ret = "Ok"

FwdCallFails ==
    /\ \/ \E p \in Ports, bind_ok \in BOOLEAN : StartPortForward(p, bind_ok)
       \/ \E p \in Ports : StopPortForward(p)
    /\ f_ret' = "Err"

\* C12: a start_port_forward or stop_port_forward that returns an error leaves forwards,
\* the cancel signals, the accept loops and the connection tasks as they were.
C12_FailureChangesNothing ==
    [][FwdCallFails => UNCHANGED <<forwards, signals, loops, conns>>]_vars

\* a call failed on a connected session with a forward, a stopped forward whose
\* listener is still bound, and a running connection task
C12_Witness ==
    /\ f_ret = "Err"
    /\ handle[1] = Some
    /\ \E p \in Ports : ~forwards[p] /\ ListenerBound(p)
    /\ \E p \in Ports : forwards[p]
    /\ \E i \in ConnIds : conns[i].pc = "copy"

Latched(ch) == ch.closed \/ ch.value
SpawnedFor(p, i) == conns[i].pc = "none" /\ conns'[i].pc = "open" /\ conns'[i].port = p

GridShape(e) ==
    /\ Len(e.cells) = e.rows
    /\ \A y \in 1..Len(e.cells) : Len(e.cells[y]) = e.cols

\* C14: after each call the cursor is inside the grid, 0 <= cursor_x < cols and
\* 0 <= cursor_y < rows, also after a printable was written in the last column.
C14_CursorInGrid ==
    /\ 0 <= emu.cursor_x /\ emu.cursor_x < emu.cols
    /\ 0 <= emu.cursor_y /\ emu.cursor_y < emu.rows

\* C15: the grid always has exactly rows rows of exactly cols cells, and a line feed on
\* the bottom row drops the topmost row and appends one blank row.
C15_GridShape ==
    /\ [](GridShape(emu))
    /\ [][(EmuExecute("LF") /\ emu.cursor_y + 1 >= emu.rows) =>
             emu'.cells = Append(Tail(emu.cells), VecOf(DefaultCell, emu.cols))]_vars

C15_Witness ==
    /\ e_last.op = "execute"
    /\ emu.rows = 2
    /\ emu.cursor_y = 1
    /\ emu.cells[1][1].ch = "x"
    /\ emu.cells[2] = VecOf(DefaultCell, emu.cols)

Max(a, b) == IF a >= b THEN a ELSE b
\* the step is a csi_dispatch of H or f, with the parameters e_last' keeps
AnyCupCall == e_last'.op = "cup"
CupCall ==
    /\ emu'.cursor_y = Min(Max(e_last'.first, 1), emu.rows) - 1
    /\ emu'.cursor_x = Min(Max(e_last'.second, 1), emu.cols) - 1

\* C18: CSI r;c H (and f) moves the cursor to the 1-based position clamped into the grid,
\* missing or zero parameters meaning 1, and a printable fed next lands in that cell.
C18_CursorPosition ==
    /\ [][AnyCupCall => CupCall]_vars
    /\ [][\A ch \in Chars : (e_last.op = "cup" /\ EmuPrint(ch)) =>
             emu'.cells[emu.cursor_y + 1][emu.cursor_x + 1].ch = ch]_vars

\* a position past the grid was asked for, the cursor stands in the last cell
C18_Witness ==
    /\ e_last.op = "cup"
    /\ e_last.first > emu.rows /\ e_last.second > emu.cols
    /\ emu.cursor_y = emu.rows - 1 /\ emu.cursor_x = emu.cols - 1
    /\ emu.rows = 2 /\ emu.cols = 2

AllDefault(e) == e.cells = VecOf(VecOf(DefaultCell, e.cols), e.rows)

\* C19: CSI 2 J and CSI 3 J make every cell the default cell and leave the cursor where
\* it was.
C19_EraseAll ==
    [][e_last'.op = "ed_all" =>
          /\ AllDefault(emu')
          /\ emu'.cursor_x = emu.cursor_x /\ emu'.cursor_y = emu.cursor_y]_vars

\* erased after the bottom row was written to its last column
C19_Witness ==
    /\ e_last.op = "ed_all"
    /\ AllDefault(emu)
    /\ emu.cursor_x = emu.cols /\ emu.cursor_y = 1

Resized(c, r) ==
    /\ emu'.cols = c /\ emu'.rows = r
    /\ GridShape(emu')
    /\ \A y \in 1..r, x \in 1..c :
          emu'.cells[y][x] = IF y <= emu.rows /\ x <= emu.cols
                             THEN emu.cells[y][x] ELSE DefaultCell
    /\ emu'.cursor_x < c /\ emu'.cursor_y < r

\* C20: resize(c, r) with c, r >= 1 gives r rows of c cells, keeps the cells that are in
\* both grids, makes every new cell the default cell and leaves cursor_x < c, cursor_y < r.
C20_Resize ==
    [][e_last'.op = "resize" => Resized(e_last'.first, e_last'.second)]_vars

\* a 1x2 grid after a resize: the kept cell has its character, the cursor was pulled in
C20_Witness ==
    /\ e_last.op = "resize"
    /\ emu.cols = 1 /\ emu.rows = 2
    /\ emu.cells[1][1].ch = "x"
    /\ emu.cells[2][1] = DefaultCell
    /\ emu.cursor_x = 0 /\ emu.cursor_y = 1

\* ------------------------------------------------ claims on SpecScenario
RowText(y) == [x \in 1..Len(emu.cells[y + 1]) |-> emu.cells[y + 1][x].ch]
Contains(text, pat) ==
    \E i \in 1..(Len(text) - Len(pat) + 1) : SubSeq(text, i, i + Len(pat) - 1) = pat
RowHas(y, pat) == Contains(RowText(y), pat)
Fed(name) == scenario = name /\ feed = <<>>
Consumed == Len(Scenarios[scenario]) - Len(feed)

\* C16 as claimed: after the 25 lines no row contains L0 and L24 is on row 23.
C16_LastLineOnBottomRow ==
    Fed("lines") =>
        /\ \A y \in 0..(emu.rows - 1) : ~RowHas(y, <<"L", "0">>)
        /\ RowHas(23, <<"L", "2", "4">>)

\* C16 amended: after the 25 lines (each followed by LF) no row contains L0, L24 is on
\* row 22 and row 23, where the cursor stands, is blank.
C16_LastLineAboveBottomRow ==
    Fed("lines") =>
        /\ \A y \in 0..(emu.rows - 1) : ~RowHas(y, <<"L", "0">>)
        /\ RowHas(22, <<"L", "2", "4">>)
        /\ \A y \in 0..(emu.rows - 1) : y # 22 => ~RowHas(y, <<"L", "2", "4">>)
        /\ emu.cells[24] = VecOf(DefaultCell, emu.cols)
        /\ emu.cursor_y = 23

C16_Witness ==
    /\ Fed("lines")
    /\ RowHas(21, <<"L", "2", "3">>)
    /\ RowHas(0, <<"L", "2">>)

\* C17: k printable characters (k < cols) fed to a fresh emulator are in row 0, columns
\* 0..k-1, every other cell is blank and the cursor is at (k, 0).
C17_PrintFresh ==
    scenario = "hello" =>
        /\ emu.cells[1] = [x \in 1..emu.cols |->
                              IF x <= Consumed
                              THEN [DefaultCell EXCEPT !.ch = HelloWorld[x]]
                              ELSE DefaultCell]
        /\ \A y \in 2..emu.rows : emu.cells[y] = VecOf(DefaultCell, emu.cols)
        /\ emu.cursor_x = Consumed /\ emu.cursor_y = 0

C17_Witness ==
    /\ Fed("hello")
    /\ SubSeq(RowText(0), 1, 13) = HelloWorld
    /\ emu.cursor_x = 13 /\ emu.cursor_y = 0

C22_WouldBlockIsSuccess ==
    (pty.wrote.n < 0 /\ pty.wrote.errno = "EAGAIN") => pty.w_ret = 0

\* ------------------------------------------------ claims on SpecGraph
Returned == gst.pc = "done"
Rows == DOMAIN gin.commits

\* C23: compute_graph_layout returns one GraphRow per input commit, in input order, each
\* with its commit's hash, parents and other copied fields unchanged; no commits, no rows.
C23_OneRowPerCommit ==
    Returned =>
        /\ Len(gst.result) = Len(gin.commits)
        /\ \A i \in Rows :
              /\ gst.result[i].hash = gin.commits[i].hash
              /\ gst.result[i].parents = gin.commits[i].parents
              /\ gst.result[i].meta = gin.commits[i].meta

\* three rows came back for three commits that are not alike
C23_Witness ==
    /\ Returned
    /\ Len(gst.result) = 3
    /\ gst.result[3].hash = Hash(3)
    /\ gst.result[1].parents = <<Hash(3), Hash(2)>>
    /\ gst.result[2].parents = <<Hash(3)>>

\* C24 as claimed: every edge of the edge list has up_li <= down_li.
C24_UpLiAtMostDownLi ==
    \A ei \in DOMAIN gst.all_edges : gst.all_edges[ei].up_li <= gst.all_edges[ei].down_li

\* the edges that are active and visible in row r: r lies strictly between child and parent
VisibleAt(r) ==
    {ei \in DOMAIN gst.all_edges :
        /\ gst.all_edges[ei].child_row < r /\ r < gst.all_edges[ei].parent_row
        /\ is_edge_visible_in_row(gst.all_edges[ei].child_row, gst.all_edges[ei].parent_row,
                                  r, mode(gin.show_long_edges))}
Swept == {r \in Rows : gst.pc \in {"sweep", "emit", "done"} /\ r < gst.row}

\* C25: at every row the node and the visible active edges get pairwise distinct columns
\* that are exactly 0..k-1, k being 1 plus the number of visible active edges.
C25_ColumnsBijective ==
    \A r \in Swept :
        LET at == gst.edge_column_at_row[r]
        IN  /\ {p[1] : p \in at} = VisibleAt(r)
            /\ Cardinality(at) = Cardinality(VisibleAt(r))
            /\ {p[2] : p \in at} \cup {gst.node_columns[r]} = 0..Cardinality(VisibleAt(r))
            /\ gst.node_columns[r] \notin {p[2] : p \in at}

\* the long edge is hidden in row 5 and shown in row 2, where it takes column 0 and
\* the node column 1
C25_Witness ==
    /\ Returned
    /\ gin.name = "long"
    /\ ~gin.show_long_edges
    /\ gst.edge_column_at_row[5] = {}
    /\ gst.edge_column_at_row[2] = {<<2, 0>>}
    /\ gst.node_columns[2] = 1

\* C26: a row whose hash is in main_chain has color_index 0, whatever its layout index
\* and the colours given before it; every other row has color_index >= 1.
C26_MainChainColour ==
    Returned =>
        \A i \in Rows :
            IF gin.commits[i].hash \in gin.main_chain
            THEN gst.result[i].color_index = 0
            ELSE gst.result[i].color_index >= 1

\* a main-chain row on a lane that an earlier row had already given a colour
C26_Witness ==
    /\ Returned
    /\ \E i, j \in Rows :
          /\ i < j
          /\ gst.layout_index[i] = gst.layout_index[j]
          /\ gst.result[i].color_index >= 1
          /\ gin.commits[j].hash \in gin.main_chain
          /\ gst.result[j].color_index = 0

\* the edges the sweep has in its set at row r, whatever the order of iteration
ActiveAt(r) ==
    {ei \in DOMAIN gst.all_edges :
        /\ gst.all_edges[ei].child_row + 1 <= r
        /\ r <= last_intermediate(gst.all_edges[ei], Len(gin.commits))}

\* C27 as claimed: the columns of every row are the same whatever order the active-edge
\* set is iterated in: they are those of the run that iterates it in ascending order.
C27_Deterministic ==
    \A r \in Swept :
        LET ref == columns_of(sort_by(row_elements(gst.all_edges, gst.layout_index,
                                                   Len(gin.commits), r,
                                                   Ascending(ActiveAt(r)),
                                                   mode(gin.show_long_edges))))
        IN  /\ gst.node_columns[r] = ref.node
            /\ gst.edge_column_at_row[r] = ref.edges

Linear(commits) ==
    \A i \in DOMAIN commits :
        commits[i].parents = IF i < Len(commits) THEN <<commits[i + 1].hash>> ELSE <<>>

\* C28: for a linear history every node_column is 0, there are no arrows, every edge
\* gives one bottom-half segment to its child row and one top-half segment to its parent
\* row, both vertical at x = lane_width/2 + 4 (14 for lane_width 20), and with
\* main_chain = {first commit} the colours are 0 for the first row and 1 for the others.
C28_LinearHistory ==
    (Returned /\ Linear(gin.commits)) =>
        LET x == (gin.lane_width \div 2) + 4
            rh == gin.row_height
            n == Len(gin.commits)
            top(i) == [row |-> i, x_top |-> x, y_top |-> 0, x_bottom |-> x,
                       y_bottom |-> rh \div 2, ei |-> i - 1,
                       color_index |-> gst.result[i - 1].color_index]
            bottom(i) == [row |-> i, x_top |-> x, y_top |-> rh \div 2, x_bottom |-> x,
                          y_bottom |-> rh, ei |-> i,
                          color_index |-> gst.result[i].color_index]
        IN  /\ \A i \in Rows :
                  /\ gst.result[i].node_column = 0
                  /\ gst.result[i].arrows = <<>>
                  /\ gst.result[i].segments =
                         (IF i > 1 THEN <<top(i)>> ELSE <<>>) \o
                         (IF i < n THEN <<bottom(i)>> ELSE <<>>)
            /\ gin.lane_width = 20 => x = 14
            /\ (n >= 1 /\ gin.main_chain = {gin.commits[1].hash}) =>
                  \A i \in Rows : gst.result[i].color_index = IF i = 1 THEN 0 ELSE 1

\* A, B, C with main_chain = {A}
C28_Witness ==
    /\ Returned
    /\ Len(gin.commits) = 3
    /\ Linear(gin.commits)
    /\ gin.main_chain = {gin.commits[1].hash}
    /\ gst.result[2].segments[1].x_top = 14

\* the colour the rule gives edge ei: the child's for a first parent, the parent's otherwise
RuleColour(ei) ==
    LET e == gst.all_edges[ei]
    IN  IF e.parent_index = 0 THEN gst.node_colors[e.child_row]
        ELSE gst.node_colors[e.parent_row]
MergeMAB ==
    /\ Len(gin.commits) = 3
    /\ gin.commits[1].parents = <<gin.commits[2].hash, gin.commits[3].hash>>
    /\ gin.commits[2].parents = <<>>
    /\ gin.commits[3].parents = <<>>

\* C29: a first-parent edge has the child row's colour, a merge edge the parent row's,
\* and every segment and arrow of the edge has that colour; for [M, A, B] with M's parents
\* A B the edge M->B has B's colour, M is in column 0, and in A's row the edge M->B is in
\* another column than node A.
C29_EdgeColour ==
    /\ \A ei \in DOMAIN gst.all_edges : gst.all_edges[ei].color_index = RuleColour(ei)
    /\ Returned =>
          \A i \in Rows :
              /\ \A k \in DOMAIN gst.result[i].segments :
                    gst.result[i].segments[k].color_index =
                        RuleColour(gst.result[i].segments[k].ei)
              /\ \A k \in DOMAIN gst.result[i].arrows :
                    gst.result[i].arrows[k].color_index =
                        RuleColour(gst.result[i].arrows[k].ei)
    /\ (Returned /\ MergeMAB) =>
          /\ gst.all_edges[2].parent_row = 3
          /\ gst.all_edges[2].color_index = gst.result[3].color_index
          /\ gst.result[1].node_column = 0
          /\ \E p \in gst.edge_column_at_row[2] :
                p[1] = 2 /\ p[2] # gst.result[2].node_column

\* M, A, B laid out: the merge edge's colour is B's and not M's
C29_Witness ==
    /\ Returned
    /\ MergeMAB
    /\ gst.all_edges[2].color_index # gst.result[1].color_index
    /\ gst.result[3].color_index = gst.all_edges[2].color_index

\* ------------------------------------------------ claims on SpecDetect
Entries == {det.services[i].name : i \in DOMAIN det.services}

\* C30: detect_all returns an entry for a service only if its `which` completed with exit
\* code 0; a `which` that fails or exits non-zero gives no entry and no further command
\* for that service; the entries are in the order mysql, redis, postgresql, docker.
C30_OnlyFoundServices ==
    /\ \A s \in ServiceNames :
          /\ det.svc[s].ret = "Some" => (det.svc[s].which.ok /\ det.svc[s].which.code = 0)
          /\ (det.svc[s].ran >= 1 /\ ~(det.svc[s].which.ok /\ det.svc[s].which.code = 0))
                => /\ det.svc[s].ran = 1
                   /\ det.svc[s].ret = "None"
    /\ det.pc = "returned" =>
          /\ \A s \in Entries : det.svc[s].which.ok /\ det.svc[s].which.code = 0
          /\ \A s \in ServiceNames : det.svc[s].ran = 1 => s \notin Entries
          /\ \A i, j \in DOMAIN det.services :
                i < j => \E a, b \in DOMAIN Services :
                            /\ a < b
                            /\ Services[a] = det.services[i].name
                            /\ Services[b] = det.services[j].name

\* redis and docker found, mysql's `which` failed, psql's exited with 1
C30_Witness ==
    /\ det.pc = "returned"
    /\ Len(det.services) = 2
    /\ det.services[1].name = "redis"
    /\ det.services[2].name = "docker"
    /\ ~det.svc["mysql"].which.ok
    /\ det.svc["postgresql"].which = [ok |-> TRUE, code |-> 1]

\* ------------------------------------------------ claims on SpecFfi
CreatingOps == {"terminal_create", "terminal_create_with_args", "ssh_connect"}
\* the call was given a null pointer, a string that is not UTF-8, or an unknown auth type
InvalidArgument ==
    \E i \in DOMAIN ffi.args :
        \/ ffi.args[i] \in {"null", "bad_utf8"}
        \/ ffi.op = "ssh_connect" /\ i = 4 /\ ffi.args[i] \notin {0, 1}

\* C31 as claimed: a handle-creating call given an invalid argument returns null and has
\* neither spawned a process nor attempted a connection; every other call given one
\* returns -1 or a null string.
C31_InvalidArgumentRefused ==
    InvalidArgument =>
        IF ffi.op \in CreatingOps
        THEN ffi.ret = "null" /\ ffi.did = {}
        ELSE ffi.ret \in {"-1", "null"}

\* ------------------------------------------------ claims on SpecParse
\* a token with every trailing ',' and ';' taken off, in whatever order they come
RECURSIVE Stripped(_)
Stripped(w) ==
    IF w # <<>> /\ w[Len(w)] \in {",", ";"} THEN Stripped(SubSeq(w, 1, Len(w) - 1)) ELSE w

\* what the claim says parse_version returns
ClaimedVersion(output) ==
    LET words == split_whitespace(output)
        hits == {k \in DOMAIN words : version_like(words[k])}
    IN  IF hits # {}
        THEN Stripped(words[CHOOSE k \in hits : \A l \in hits : k <= l])
        ELSE first_line_or_unknown(output)

\* C32 as claimed: parse_version returns the first whitespace-separated token that starts
\* with an ASCII digit and contains '.', its trailing ',' and ';' stripped, or else the
\* first line of the output ("unknown" for an empty output).
C32_ParseVersion ==
    pv.pc = "returned" => pv.ret = ClaimedVersion(pv.output)

\* ------------------------------------------------ claims on SpecCrypto
\* C33: decrypt(k, encrypt(k, p)) succeeds and equals p for every key and plaintext, and
\* the ciphertext is the 12-byte nonce followed by the sealed data, len(p) + 28 in all.
C33_RoundTrip ==
    /\ (cr.pc \in {"encrypted", "decrypted"} /\ cr.enc.ok) =>
          /\ Len(cr.enc.data) = Len(cr.plaintext) + 28
          /\ SubSeq(cr.enc.data, 1, 12) = cr.nonce
          /\ SubSeq(cr.enc.data, 13, Len(cr.enc.data)) =
                 seal_in_place_append_tag(cr.key, cr.nonce, cr.plaintext)
    /\ (cr.pc = "decrypted" /\ cr.dkey = cr.key /\ cr.enc.ok /\ cr.input = cr.enc.data) =>
          /\ cr.dec.ok
          /\ cr.dec.data = cr.plaintext

\* two bytes sealed under the key of the unit test and opened again
C33_Witness ==
    /\ cr.pc = "decrypted"
    /\ cr.enc.ok
    /\ cr.input = cr.enc.data
    /\ cr.key[1] = 66
    /\ cr.plaintext = <<66, 255>>
    /\ cr.enc.data[13] # 66
    /\ cr.dec = Succeeded(<<66, 255>>)

\* C34: decrypt of a ciphertext shorter than 12 bytes returns the error "Ciphertext too
\* short", whatever the key; it returns no data.
C34_ShortCiphertext ==
    (cr.pc = "decrypted" /\ Len(cr.input) < 12) =>
        /\ ~cr.dec.ok
        /\ cr.dec.err = "Ciphertext too short"
        /\ cr.dec.data = <<>>

\* the first eleven bytes of a real ciphertext are refused
C34_Witness ==
    /\ cr.pc = "decrypted"
    /\ cr.enc.ok
    /\ Len(cr.input) = 11
    /\ cr.input = SubSeq(cr.enc.data, 1, 11)
    /\ cr.dec = Failed("Ciphertext too short")

\* ------------------------------------------------ more claims on SpecMutex
\* C35: a forward task holds the session mutex only while it opens its channel: never in
\* its copy loop, and when the open fails the mutex is free as the task ends.
C35_ForwardHoldsOnlyForOpen ==
    /\ [](m_owner = FwdTask => m_pc[FwdTask] = "open")
    /\ [](m_pc[FwdTask] = "copy" => m_owner # FwdTask)
    /\ [][(m_pc[FwdTask] = "open" /\ m_pc'[FwdTask] # "open") => m_owner' = NoTask]_vars

\* the forward task copies while an exec_command holds the mutex and runs its command
C35_Witness ==
    /\ m_pc[FwdTask] = "copy"
    /\ m_owner \in ExecTasks
    /\ m_pc[m_owner] = "loop"

\* ------------------------------------------------ more claims on SpecGraph
OffMain == {i \in Rows : gin.commits[i].hash \notin gin.main_chain}

\* C36: two rows off the main chain have the same color_index exactly when they have the
\* same layout_index, and the colours of such rows are 1, 2, 3, ... in the order in which
\* their layout indices are first seen among them.
C36_ColourByLane ==
    Returned =>
        /\ \A i, j \in OffMain :
              (gst.result[i].color_index = gst.result[j].color_index)
                  <=> (gst.layout_index[i] = gst.layout_index[j])
        /\ \A i \in OffMain :
              LET first == CHOOSE f \in OffMain :
                               /\ gst.layout_index[f] = gst.layout_index[i]
                               /\ \A j \in OffMain :
                                     gst.layout_index[j] = gst.layout_index[i] => f <= j
              IN  gst.result[i].color_index =
                      Cardinality({gst.layout_index[j] : j \in {k \in OffMain : k <= first}})

\* with rows on the main chain, the lane with layout index 2 is the first seen off it and
\* has colour 1 in both its rows, and the lane with layout index 3 has colour 2
C36_Witness ==
    /\ Returned
    /\ \E i, k \in OffMain :
          /\ i < k
          /\ gst.layout_index[i] = 2 /\ gst.layout_index[k] = 2
          /\ gst.result[i].color_index = 1 /\ gst.result[k].color_index = 1
    /\ \E i \in OffMain : gst.layout_index[i] = 3 /\ gst.result[i].color_index = 2
    /\ \E i \in Rows : i \notin OffMain /\ gst.layout_index[i] = 1

\* the rows strictly between the ends of edge ei where the visibility rule hides it
HiddenRows(ei) ==
    {r \in Rows :
        /\ gst.all_edges[ei].child_row < r /\ r < gst.all_edges[ei].parent_row
        /\ ~is_edge_visible_in_row(gst.all_edges[ei].child_row, gst.all_edges[ei].parent_row,
                                   r, mode(gin.show_long_edges))}
\* the rows where edge ei has an anchor: its two ends and the rows between where it shows
AnchorRows(ei) ==
    {r \in Rows : gst.all_edges[ei].child_row <= r /\ r <= gst.all_edges[ei].parent_row}
        \ HiddenRows(ei)

\* C37: in a row between its ends where an edge is not visible the edge has no column, no
\* segment and no arrow; every segment of an edge lies in a row where the edge has an
\* anchor and next to a row where it has one too.
C37_HiddenEdgeDrawsNothing ==
    /\ \A ei \in DOMAIN gst.all_edges : \A r \in HiddenRows(ei) \cap Swept :
          \A p \in gst.edge_column_at_row[r] : p[1] # ei
    /\ Returned =>
          \A ei \in DOMAIN gst.all_edges :
              /\ \A r \in HiddenRows(ei) :
                    /\ \A k \in DOMAIN gst.result[r].segments :
                          gst.result[r].segments[k].ei # ei
                    /\ \A k \in DOMAIN gst.result[r].arrows :
                          gst.result[r].arrows[k].ei # ei
              /\ \A r \in Rows : \A k \in DOMAIN gst.result[r].segments :
                    gst.result[r].segments[k].ei = ei =>
                        /\ r \in AnchorRows(ei)
                        /\ (r - 1) \in AnchorRows(ei) \/ (r + 1) \in AnchorRows(ei)

\* the long edge is drawn in the rows next to its ends, with an arrow each, and in none
\* of the rows between them
C37_Witness ==
    /\ Returned
    /\ gin.name = "long"
    /\ HiddenRows(2) = 3..(LongRows - 2)
    /\ \E k \in DOMAIN gst.result[2].segments : gst.result[2].segments[k].ei = 2
    /\ \E k \in DOMAIN gst.result[2].arrows :
          gst.result[2].arrows[k].ei = 2 /\ gst.result[2].arrows[k].is_down
    /\ \E k \in DOMAIN gst.result[LongRows - 1].arrows :
          gst.result[LongRows - 1].arrows[k].ei = 2 /\ ~gst.result[LongRows - 1].arrows[k].is_down
    /\ \A k \in DOMAIN gst.result[5].segments : gst.result[5].segments[k].ei # 2

\* ------------------------------------------------ more claims on SpecEmu
\* C38 as claimed: whatever is fed to an emulator of at least one column and one row,
\* every cell access of print and of the erase sequences is inside the grid: processing
\* never panics on an index out of range.
C38_NoAccessOutsideGrid ==
    (emu.cols >= 1 /\ emu.rows >= 1) => ~emu.panicked

\* ------------------------------------------------ claims on SpecRead
\* C39 as claimed: over any sequence of terminal_read calls the bytes copied into the
\* caller's buffers, concatenated, are the byte stream read from the PTY master, also
\* when one read of the master returns more bytes than buffer_len.
C39_NoOutputLost ==
    rd.pc = "open" => rd.copied = rd.taken

\* what does hold: each call copies a prefix of what it read, min(read, buffer_len) bytes
\* long, so nothing is lost exactly when no read returns more than buffer_len
C39_CopiesPrefix ==
    rd.pc = "open" =>
        /\ Len(rd.copied) <= Len(rd.taken)
        /\ rd.taken \o rd.master = rd.written
        /\ rd.last.read > 0 => rd.last.ret = Min(rd.last.read, rd.last.buffer_len)

\* ------------------------------------------------ claims on SpecDisconnect
InCopyLoop(i) == conns[i].pc \in {"copy", "write"}

====
